---------------------------- MODULE Spec2Model ----------------------------
(***************************************************************************)
(* PicoVD: a read-only exFAT volume synthesised on demand over USB MSC.    *)
(*                                                                         *)
(* The model follows the C sources: the dynamic cluster allocator and the  *)
(* file API (vd_virtual_disk.c), the SCSI callbacks (vd_usb_msc_cb.c) and  *)
(* the sector generators behind vd_virtual_disk_read.                      *)
(*                                                                         *)
(* Sizes are kept below 2^31, so the 32-bit size_t / uint32_t arithmetic   *)
(* of the target never wraps on the inputs drawn here; the 16-bit          *)
(* first_cluster field of vd_dynamic_file_t is truncated explicitly.       *)
(***************************************************************************)
EXTENDS Integers, Sequences, FiniteSets, TLC

(***************************************************************************)
(* Bounds of the model (not program constants).                            *)
(***************************************************************************)
\* Number of caller-owned vd_dynamic_file_t structures.
NumFiles == 2

\* The count of hard resets (USB re-enumerations) is capped at this value.
MaxReconnects == 1

(***************************************************************************)
(* Program constants.                                                      *)
(***************************************************************************)
\* vd_exfat_params.h
VIRTUAL_DISK_SIZE == 1073741824

EXFAT_UPCASE_TABLE_COMPRESSED == 1

EXFAT_ALLOCATION_BITMAP_START_CLUSTER == 2

EXFAT_ROOT_DIR_LENGTH_CLUSTERS == 3

EXFAT_BYTES_PER_SECTOR_SHIFT == 9

EXFAT_SECTORS_PER_CLUSTER_SHIFT == 3

EXFAT_BYTES_PER_SECTOR == 2 ^ EXFAT_BYTES_PER_SECTOR_SHIFT

EXFAT_SECTORS_PER_CLUSTER == 2 ^ EXFAT_SECTORS_PER_CLUSTER_SHIFT

MSC_BLOCK_SIZE == EXFAT_BYTES_PER_SECTOR

MSC_TOTAL_BLOCKS == VIRTUAL_DISK_SIZE \div MSC_BLOCK_SIZE

EXFAT_FILE_SYSTEM_VERSION == 256

EXFAT_VOLUME_LENGTH == MSC_TOTAL_BLOCKS

EXFAT_FAT_REGION_START_LBA == 24

EXFAT_FAT_REGION_LENGTH == 2048

EXFAT_CLUSTER_HEAP_START_CLUSTER == 2

EXFAT_CLUSTER_HEAP_START_LBA == 32784

EXFAT_CLUSTER_COUNT ==
    ((MSC_TOTAL_BLOCKS - EXFAT_CLUSTER_HEAP_START_LBA)
        + (EXFAT_SECTORS_PER_CLUSTER - 1)) \div EXFAT_SECTORS_PER_CLUSTER

EXFAT_ALLOCATION_BITMAP_START_LBA == EXFAT_CLUSTER_HEAP_START_LBA

EXFAT_ALLOCATION_BITMAP_LENGTH_CLUSTERS ==
    ((((EXFAT_CLUSTER_COUNT \div 8) + (EXFAT_BYTES_PER_SECTOR - 1))
         \div EXFAT_BYTES_PER_SECTOR)
       + (EXFAT_SECTORS_PER_CLUSTER - 1)) \div EXFAT_SECTORS_PER_CLUSTER

EXFAT_ALLOCATION_BITMAP_LENGTH_SECTORS ==
    EXFAT_ALLOCATION_BITMAP_LENGTH_CLUSTERS * EXFAT_SECTORS_PER_CLUSTER

EXFAT_UPCASE_TABLE_START_LBA ==
    EXFAT_ALLOCATION_BITMAP_START_LBA + EXFAT_ALLOCATION_BITMAP_LENGTH_SECTORS

EXFAT_UPCASE_TABLE_LENGTH_CLUSTERS ==
    IF EXFAT_UPCASE_TABLE_COMPRESSED = 1 THEN 1 ELSE 32

EXFAT_UPCASE_TABLE_LENGTH_SECTORS ==
    EXFAT_UPCASE_TABLE_LENGTH_CLUSTERS * EXFAT_SECTORS_PER_CLUSTER

EXFAT_UPCASE_TABLE_START_CLUSTER ==
    EXFAT_ALLOCATION_BITMAP_START_CLUSTER + EXFAT_ALLOCATION_BITMAP_LENGTH_CLUSTERS

EXFAT_ROOT_DIR_START_LBA ==
    EXFAT_ALLOCATION_BITMAP_START_LBA
      + EXFAT_ALLOCATION_BITMAP_LENGTH_SECTORS
      + EXFAT_UPCASE_TABLE_LENGTH_SECTORS

EXFAT_ROOT_DIR_START_CLUSTER ==
    EXFAT_ALLOCATION_BITMAP_START_CLUSTER
      + EXFAT_ALLOCATION_BITMAP_LENGTH_CLUSTERS
      + EXFAT_UPCASE_TABLE_LENGTH_CLUSTERS

EXFAT_ROOT_DIR_LENGTH_SECTORS ==
    EXFAT_ROOT_DIR_LENGTH_CLUSTERS * EXFAT_SECTORS_PER_CLUSTER

\* vd_exfat.h
EXFAT_CLUSTER_TO_LBA(cluster) ==
    EXFAT_CLUSTER_HEAP_START_LBA
      + (cluster - EXFAT_CLUSTER_HEAP_START_CLUSTER) * EXFAT_SECTORS_PER_CLUSTER

\* picovd_config.h
PICOVD_PARAM_MAX_DYNAMIC_FILES == 12

PICOVD_SRAM_SIZE_BYTES == 270336

PICOVD_SRAM_START_CLUSTER == 126976

PICOVD_SRAM_START_LBA == EXFAT_CLUSTER_TO_LBA(PICOVD_SRAM_START_CLUSTER)

PICOVD_BOOTROM_SIZE_BYTES == 32768

PICOVD_BOOTROM_START_CLUSTER == 57344

PICOVD_BOOTROM_START_LBA == EXFAT_CLUSTER_TO_LBA(PICOVD_BOOTROM_START_CLUSTER)

PICOVD_FLASH_SIZE_BYTES == 2097152

PICOVD_FLASH_START_CLUSTER == 61440

PICOVD_FLASH_START_LBA == EXFAT_CLUSTER_TO_LBA(PICOVD_FLASH_START_CLUSTER)

PICOVD_CHANGING_FILE_SIZE_BYTES == 512

PICOVD_DYNAMIC_AREA_START_CLUSTER ==
    EXFAT_ROOT_DIR_START_CLUSTER + EXFAT_ROOT_DIR_LENGTH_CLUSTERS

PICOVD_DYNAMIC_AREA_END_CLUSTER == PICOVD_BOOTROM_START_CLUSTER

PICOVD_DYNAMIC_AREA_START_LBA ==
    EXFAT_CLUSTER_TO_LBA(PICOVD_DYNAMIC_AREA_START_CLUSTER)

PICOVD_DYNAMIC_AREA_END_LBA ==
    EXFAT_CLUSTER_TO_LBA(PICOVD_DYNAMIC_AREA_END_CLUSTER)

\* Addresses of the RP2350 memory map (pico-sdk): the boot ROM is at 0.
XIP_BASE == 268435456

SRAM0_BASE == 536870912

\* SCSI sense keys and additional sense codes used by the callbacks.
SCSI_SENSE_UNIT_ATTENTION == 6

SCSI_SENSE_DATA_PROTECT == 7

SCSI_ASC_WRITE_PROTECTED == 39

SCSI_ASC_MEDIUM_MAY_HAVE_CHANGED == 40

SCSI_ASCQ_WRITE_PROTECTED == 0

TUD_MSC_RET_ERROR == -1

\* tud_msc_scsi_pre_cb's "not handled here" value: the stack goes on to its
\* built-in handling and the remaining callbacks.
TUD_MSC_RET_CALL_DEFAULT == -2

(***************************************************************************)
(* State.                                                                  *)
(***************************************************************************)
VARIABLES
    next_cluster,     \* dynamic_cluster_map_next_cluster
    cluster_map,      \* dynamic_cluster_map[0 .. dynamic_cluster_map_count-1]
    files,            \* the callers' vd_dynamic_file_t structures
    dir_files,        \* files handed to vd_exfat_dir_add_file
    changed_flag,     \* vd_virtual_disk_contents_changed_flag
    sense,            \* sense data last queued with tud_msc_set_sense
    usb_reconnects,   \* tud_disconnect / tud_connect cycles so far (capped)
    call,             \* the last operation: what was called and what it returned
    hist,             \* history: what each file was granted at and after registration
    dst,              \* the destination buffer of the last read
    content_cb,       \* the content callback invocation made by the last read
    statics,          \* the lazily filled static caches of the sector generators
    halted,           \* an assert() has failed and the firmware has stopped
    device,           \* the board and the build the firmware runs on
    host_reads,       \* the READ10 commands the host is still going to send
    rb,               \* stdio_ring_buffer_rb and stdio_ring_buffer_data
    mutex,            \* the context that holds stdio_ring_buffer_mutex
    notifier,         \* the statics of vd_files_stdout.c
    ctx,              \* where the start-up, the writer, the reader and the timer are
    clock,            \* milliseconds since boot, and when the pending alarm is due
    trace             \* history: the last ring read, the last notification, who touched what

\* The registry and the notification state.
\* What a read leaves behind.
read_vars == << dst, content_cb, statics, halted, device, host_reads >>

\* The log stream and its notifier.
stdout_vars == << rb, mutex, notifier, ctx, clock, trace >>

vars == << next_cluster, cluster_map, files, dir_files, changed_flag, sense,
           usb_reconnects, hist, call, dst, content_cb, statics, halted, device,
           host_reads, rb, mutex, notifier, ctx, clock, trace >>

FileIds == 1 .. NumFiles

cluster_size_bytes == EXFAT_BYTES_PER_SECTOR * EXFAT_SECTORS_PER_CLUSTER

\* Clusters of the dynamic area, and its size in bytes.
DynamicAreaClusters ==
    PICOVD_DYNAMIC_AREA_END_CLUSTER - PICOVD_DYNAMIC_AREA_START_CLUSTER

DynamicAreaBytes == DynamicAreaClusters * cluster_size_bytes

\* (bytes + cluster_size_bytes - 1) / cluster_size_bytes, rounding up.
clusters_needed_floor(bytes) == bytes \div cluster_size_bytes

clusters_needed(bytes) ==
    (bytes + cluster_size_bytes - 1) \div cluster_size_bytes

NoSense == [key |-> 0, asc |-> 0, ascq |-> 0]

NoCall == [op |-> "none", f |-> 0, a |-> 0, b |-> 0, rc |-> 0]

NoHist == [reg_first |-> 0, reserved |-> 0, reg_max |-> 0]

(***************************************************************************)
(* vd_dynamic_cluster_alloc: the sequential allocator.  The result is the  *)
(* allocated first cluster (0: failure) with the allocator state after.    *)
(***************************************************************************)
alloc_out_of_space_never(needed) == FALSE

alloc_out_of_space(needed) ==
    next_cluster + needed >= PICOVD_DYNAMIC_AREA_END_CLUSTER

vd_dynamic_cluster_alloc(region_size_bytes, handler) ==
    LET needed == clusters_needed(region_size_bytes) IN
    IF alloc_out_of_space(needed)
    THEN [rc |-> 0, next |-> next_cluster, map |-> cluster_map]
    ELSE IF Len(cluster_map) >= PICOVD_PARAM_MAX_DYNAMIC_FILES
    THEN [rc |-> 0, next |-> next_cluster, map |-> cluster_map]
    ELSE [rc   |-> next_cluster,
          next |-> next_cluster + needed,
          map  |-> Append(cluster_map,
                          [first_cluster   |-> next_cluster,
                           file_size_bytes |-> region_size_bytes,
                           handler         |-> handler])]

(***************************************************************************)
(* vd_virtual_disk_contents_changed(hard_reset).                           *)
(***************************************************************************)
contents_changed_flag_after_unset(hard_reset) == changed_flag

contents_changed_flag_after(hard_reset) == TRUE

contents_changed_reconnects_after(hard_reset) ==
    IF hard_reset /\ usb_reconnects < MaxReconnects
    THEN usb_reconnects + 1
    ELSE usb_reconnects

(***************************************************************************)
(* vd_exfat_dir_add_file / vd_exfat_dir_update_file: the directory side of *)
(* the registry.  vd_update_file passes notify = true, and the update      *)
(* raises the soft media-change notification.                              *)
(***************************************************************************)
vd_exfat_dir_add_file(f) == dir_files \cup {f}

vd_exfat_dir_update_file_hard_reset(notify) == FALSE

(***************************************************************************)
(* vd_add_file(file, max_size_bytes).  The definition takes the file only: *)
(* the clusters are allocated for file->size_bytes, and the max_size_bytes *)
(* of the declaration and of the callers never reaches the allocator.      *)
(* init is the size_bytes the caller's structure holds when it is first    *)
(* registered (PICOVD_DEFINE_FILE_RUNTIME's file_size_bytes).              *)
(***************************************************************************)
VdAddFile(f, init, max_size_bytes) ==
    LET unbacked == files[f].first_cluster = 0
        size0    == IF unbacked THEN init ELSE files[f].size_bytes
        r        == vd_dynamic_cluster_alloc(size0, f)
        first16  == r.rc % 65536
        failed   == unbacked /\ first16 = 0
        rc       == IF failed THEN -1 ELSE 0
    IN
    /\ ~halted
    /\ files' = IF unbacked /\ ~failed
                THEN [files EXCEPT ![f] =
                         [first_cluster |-> first16, size_bytes |-> size0]]
                ELSE files
    /\ next_cluster' = IF unbacked THEN r.next ELSE next_cluster
    /\ cluster_map'  = IF unbacked THEN r.map ELSE cluster_map
    /\ dir_files' = IF failed THEN dir_files ELSE vd_exfat_dir_add_file(f)
    /\ hist' = IF unbacked /\ ~failed
               THEN [hist EXCEPT ![f] =
                        [reg_first |-> first16,
                         reserved  |-> r.next - next_cluster,
                         reg_max   |-> max_size_bytes]]
               ELSE hist
    /\ call' = [op |-> "add", f |-> f, a |-> init, b |-> max_size_bytes, rc |-> rc]
    /\ UNCHANGED << changed_flag, sense, usb_reconnects, read_vars >>

(***************************************************************************)
(* vd_update_file(file, size_bytes).                                       *)
(***************************************************************************)
update_can_extend_no_tail_check(f, clusters_allocated, clusters_to_add) ==
    next_cluster + clusters_to_add <= PICOVD_DYNAMIC_AREA_END_CLUSTER

update_can_extend(f, clusters_allocated, clusters_to_add) ==
    /\ files[f].first_cluster + clusters_allocated = next_cluster
    /\ next_cluster + clusters_to_add <= PICOVD_DYNAMIC_AREA_END_CLUSTER

VdUpdateFile(f, size_bytes) ==
    LET needed    == clusters_needed(size_bytes)
        allocated == clusters_needed(files[f].size_bytes)
        to_add    == needed - allocated
        grows     == size_bytes > files[f].size_bytes /\ to_add > 0
        failed    == grows /\ ~update_can_extend(f, allocated, to_add)
        hard      == vd_exfat_dir_update_file_hard_reset(TRUE)
    IN
    /\ ~halted
    /\ files[f].first_cluster # 0       \* only registered files are updated
    /\ IF failed
       THEN /\ call' = [op |-> "update", f |-> f, a |-> size_bytes, b |-> 0, rc |-> -1]
            /\ UNCHANGED << next_cluster, files, changed_flag, usb_reconnects, hist >>
       ELSE /\ next_cluster' = IF grows THEN next_cluster + to_add ELSE next_cluster
            /\ files' = [files EXCEPT ![f].size_bytes = size_bytes]
            /\ hist' = [hist EXCEPT ![f].reserved =
                            @ + (next_cluster' - next_cluster)]
            /\ changed_flag' = contents_changed_flag_after(hard)
            /\ usb_reconnects' = contents_changed_reconnects_after(hard)
            /\ call' = [op |-> "update", f |-> f, a |-> size_bytes, b |-> 0, rc |-> 0]
    /\ UNCHANGED << cluster_map, dir_files, sense, read_vars >>

(***************************************************************************)
(* The application calls vd_virtual_disk_contents_changed itself.          *)
(***************************************************************************)
ContentsChanged(hard_reset) ==
    /\ ~halted
    /\ changed_flag' = contents_changed_flag_after(hard_reset)
    /\ usb_reconnects' = contents_changed_reconnects_after(hard_reset)
    /\ call' = [op |-> "changed", f |-> 0, a |-> IF hard_reset THEN 1 ELSE 0,
                b |-> 0, rc |-> 0]
    /\ UNCHANGED << next_cluster, cluster_map, files, dir_files, sense, hist,
                    read_vars, stdout_vars >>

(***************************************************************************)
(* Buffers.  A destination buffer of n bytes is a function on 0 .. n-1; a  *)
(* byte the callee has not written holds Stale, its previous content.      *)
(***************************************************************************)
Stale == -1

NewBuffer(n) == [i \in 0 .. n - 1 |-> Stale]

Min(a, b) == IF a < b THEN a ELSE b

\* memset(buf + at, val, n)
memset(buf, at, val, n) ==
    [i \in DOMAIN buf |-> IF i >= at /\ i < at + n THEN val ELSE buf[i]]

\* memcpy(buf + at, src + from, n), where src(k) is the k-th byte of the source
memcpy(buf, at, src(_), from, n) ==
    [i \in DOMAIN buf |->
        IF i >= at /\ i < at + n THEN src(from + (i - at)) ELSE buf[i]]

\* buf[at] = val, for at inside the buffer
poke(buf, at, val) == [i \in DOMAIN buf |-> IF i = at THEN val ELSE buf[i]]

\* Little-endian bytes of a value below 2^31, as the U16_LE / U32_LE / U64_LE
\* macros lay them out.
U16_LE(x) == << x % 256, (x \div 256) % 256 >>

U32_LE(x) == U16_LE(x % 65536) \o U16_LE((x \div 65536) % 65536)

U64_LE(x) == U32_LE(x) \o U32_LE(0)

Zeros(n) == [i \in 1 .. n |-> 0]

RECURSIVE Concat(_)
Concat(seqs) == IF seqs = << >> THEN << >> ELSE Head(seqs) \o Concat(Tail(seqs))

(***************************************************************************)
(* 32-bit checksum arithmetic, kept as two 16-bit halves.                  *)
(***************************************************************************)
Sum32Zero == [hi |-> 0, lo |-> 0]

\* (x >> 1) | (x << 31)
ror32(x) ==
    [hi |-> (x.hi \div 2) + (x.lo % 2) * 32768,
     lo |-> (x.lo \div 2) + (x.hi % 2) * 32768]

\* (x + b) & 0xFFFFFFFF for a byte b
add32(x, b) ==
    [hi |-> (x.hi + ((x.lo + b) \div 65536)) % 65536,
     lo |-> (x.lo + b) % 65536]

\* (x >> (8 * k)) & 0xFF
byte_of32(x, k) ==
    IF k < 2 THEN (x.lo \div (256 ^ k)) % 256 ELSE (x.hi \div (256 ^ (k - 2))) % 256

(***************************************************************************)
(* The static caches.  serial: get_volume_serial_number's statics;         *)
(* checksum: gen_cksm_sector's statics; set_checksums: the checksum_computed*)
(* flags of exfat_root_dir_entries; slot and des: current_slot_idx and     *)
(* directory_entry_set_buffer.                                             *)
(***************************************************************************)
NotInited == << >>

NotCached == [hi |-> -1, lo |-> -1]

\* checksum_computed is still false for an entry set of the root directory.
NotComputed == -1

NoCallback == [f |-> 0, offset |-> 0, len |-> 0]

\* sizeof(exfat_root_dir_entries_dynamic_file_t)
DynamicEntrySetSize == 12 * 32

InitialStatics ==
    [serial        |-> NotInited,
     checksum      |-> NotCached,
     set_checksums |-> [i \in 1 .. 4 |-> NotComputed],
     slot          |-> -1,
     des           |-> Zeros(DynamicEntrySetSize)]

\* What a generator hands back: the buffer, the statics, whether an assert
\* stopped it, and the content callback it invoked.
Done(buf, m) == [buf |-> buf, m |-> m, halt |-> FALSE, cb |-> NoCallback]

AssertFailed(buf, m) == [buf |-> buf, m |-> m, halt |-> TRUE, cb |-> NoCallback]

(***************************************************************************)
(* The environment of a read.  Fixed for a device: the board's unique id   *)
(* (first four bytes), whether assert() is compiled in, and the byte found *)
(* behind the end of a static object.  Per read: the uptime in seconds.    *)
(***************************************************************************)
BoardIds == { << 0, 0, 0, 0 >>, << 120, 86, 52, 230 >> }

GarbageBytes == {0, 165}

UptimeSeconds == {0, 3725}

Devices == [board_id : BoardIds, asserts : BOOLEAN, garbage : GarbageBytes]

(***************************************************************************)
(* vd_exfat_consts.cpp: the boot sector image.                             *)
(***************************************************************************)
exfat_boot_sector_data ==
    LET fields ==
          Concat(<< << 235, 118, 144 >>,
                    << 69, 88, 70, 65, 84, 32, 32, 32 >>,
                    Zeros(53),
                    U64_LE(0),
                    U64_LE(EXFAT_VOLUME_LENGTH),
                    U32_LE(EXFAT_FAT_REGION_START_LBA),
                    U32_LE(EXFAT_FAT_REGION_LENGTH),
                    U32_LE(EXFAT_CLUSTER_HEAP_START_LBA),
                    U32_LE(EXFAT_CLUSTER_COUNT),
                    U32_LE(EXFAT_ROOT_DIR_START_CLUSTER),
                    U32_LE(0),
                    U16_LE(EXFAT_FILE_SYSTEM_VERSION),
                    U16_LE(0),
                    << EXFAT_BYTES_PER_SECTOR_SHIFT,
                       EXFAT_SECTORS_PER_CLUSTER_SHIFT, 1, 0, 255 >> >>)
    IN fields \o Zeros(120 - Len(fields))

exfat_boot_sector_data_length == Len(exfat_boot_sector_data)

boot_sector_byte(pos) == exfat_boot_sector_data[pos + 1]

(***************************************************************************)
(* vd_exfat_consts.cpp: the first FAT sector.                              *)
(***************************************************************************)
FatEndOfChain == << 255, 255, 255, 255 >>

\* The entries of a chain of count clusters starting at first: each cluster
\* points at the next one, the last holds the end-of-chain mark.
FatChain(first, count) ==
    Concat([k \in 1 .. count - 1 |-> U32_LE(first + k)]) \o FatEndOfChain

exfat_fat0_sector_data ==
    Concat(<< << 248, 255, 255, 255 >>,
              FatEndOfChain,
              FatChain(EXFAT_ALLOCATION_BITMAP_START_CLUSTER, 8),
              FatChain(EXFAT_UPCASE_TABLE_START_CLUSTER, 32),
              FatChain(EXFAT_ROOT_DIR_START_CLUSTER, EXFAT_ROOT_DIR_LENGTH_CLUSTERS) >>)

exfat_fat0_sector_data_len == Len(exfat_fat0_sector_data)

fat0_sector_byte(pos) == exfat_fat0_sector_data[pos + 1]

(***************************************************************************)
(* vd_exfat_consts.cpp: the up-case table, 128 words.                      *)
(***************************************************************************)
exfat_upcase_table ==
    [k \in 1 .. 128 |-> IF k - 1 >= 97 /\ k - 1 <= 122 THEN k - 1 - 32 ELSE k - 1]

\* sizeof(exfat_upcase_table), in bytes
exfat_upcase_table_len == 2 * Len(exfat_upcase_table)

(***************************************************************************)
(* Sector generators of vd_virtual_disk.c.                                 *)
(***************************************************************************)
get_volume_serial_number(m, env) ==
    IF m.serial = NotInited THEN env.board_id ELSE m.serial

gen_zero_sector(lba, offset, buf, bufsize, m, env) ==
    Done(memset(buf, 0, 0, bufsize), m)

gen_ones_sector(lba, offset, buf, bufsize, m, env) ==
    Done(memset(buf, 0, 255, bufsize), m)

\* The signature bytes 0x55 0xAA at 510 and 511, for the part of them inside
\* the slice.
signature_in_slice(offset, bufsize, pos) ==
    offset + bufsize > pos /\ offset < pos

gen_extb_sector_signature(offset, buffer, bufsize) ==
    LET pos55 == MSC_BLOCK_SIZE - 2
        posAA == MSC_BLOCK_SIZE - 1
        b1 == IF signature_in_slice(offset, bufsize, pos55)
              THEN poke(buffer, pos55 - offset, 85) ELSE buffer
    IN IF signature_in_slice(offset, bufsize, posAA)
       THEN poke(b1, posAA - offset, 170) ELSE b1

gen_extb_sector(lba, offset, buf, bufsize, m, env) ==
    Done(gen_extb_sector_signature(offset, memset(buf, 0, 0, bufsize), bufsize), m)

gen_boot_sector(lba, offset, buf, bufsize, m, env) ==
    LET n == IF offset < exfat_boot_sector_data_length
             THEN Min(exfat_boot_sector_data_length - offset, bufsize)
             ELSE 0
        b1 == memcpy(buf, 0, boot_sector_byte, offset, n)
        remaining == bufsize - n
        serial_pos == 100
        with_serial == offset <= serial_pos /\ offset + bufsize > serial_pos
        serial == get_volume_serial_number(m, env)
        b2 == IF with_serial
              THEN [i \in DOMAIN b1 |->
                      IF offset + i >= serial_pos /\ offset + i < serial_pos + 4
                      THEN serial[offset + i - serial_pos + 1]
                      ELSE b1[i]]
              ELSE b1
        b3 == IF remaining > 0 THEN memset(b2, n, 0, remaining) ELSE b2
    IN Done(gen_extb_sector_signature(offset, b3, bufsize),
            IF with_serial THEN [m EXCEPT !.serial = serial] ELSE m)

gen_fat0_sector(lba, offset, buffer, bufsize, m, env) ==
    LET b1 == memset(buffer, 0, 0, bufsize)
        copy_len == Min(exfat_fat0_sector_data_len - offset, bufsize)
    IN Done(IF offset < exfat_fat0_sector_data_len
            THEN memcpy(b1, 0, fat0_sector_byte, offset, copy_len)
            ELSE b1,
            m)

\* The word gen_upcs_sector stores for table index idx.
upcs_word(idx) ==
    IF idx < exfat_upcase_table_len \div 2
    THEN exfat_upcase_table[idx + 1]
    ELSE IF EXFAT_UPCASE_TABLE_COMPRESSED = 1 THEN 0 ELSE idx % 65536

\* gen_upcs_sector writes bufsize / 2 whole 16-bit words, starting with the
\* word at offset / 2; its asserts require an even offset and an even size.
gen_upcs_sector(lba, offset, buf, bufsize, m, env) ==
    LET words_per_sector == EXFAT_BYTES_PER_SECTOR \div 2
        sector_index == lba - EXFAT_UPCASE_TABLE_START_LBA
        base_index == sector_index * words_per_sector
        start_word == offset \div 2
        word_count == bufsize \div 2
        asserted ==
            /\ offset % 2 = 0
            /\ bufsize % 2 = 0
            /\ lba >= EXFAT_UPCASE_TABLE_START_LBA
            /\ base_index + start_word + word_count
                 <= EXFAT_UPCASE_TABLE_LENGTH_SECTORS * words_per_sector
        out == [i \in DOMAIN buf |->
                  IF i < 2 * word_count
                  THEN LET value == upcs_word(base_index + start_word + (i \div 2))
                       IN IF i % 2 = 0 THEN value % 256 ELSE value \div 256
                  ELSE buf[i]]
    IN IF env.asserts /\ ~asserted THEN AssertFailed(buf, m) ELSE Done(out, m)

(***************************************************************************)
(* vd_files_rp2350.c: the memory-mapped files.  Every one of them copies   *)
(* bufsize bytes from the address of the sector; offset is not used.       *)
(***************************************************************************)
\* The byte the device holds at an address (a stand-in for ROM, flash, SRAM).
DeviceByte(address) == (((address % 256) * 7) + ((address \div 512) % 256)) % 256

vd_file_sector_get_bootrom(lba, offset, buffer, bufsize, m, env) ==
    LET address == (lba - PICOVD_BOOTROM_START_LBA) * EXFAT_BYTES_PER_SECTOR
    IN Done(memcpy(buffer, 0, DeviceByte, address, bufsize), m)

vd_file_sector_get_sram(lba, offset, buffer, bufsize, m, env) ==
    LET address ==
          (lba - PICOVD_SRAM_START_LBA) * EXFAT_BYTES_PER_SECTOR + SRAM0_BASE
    IN Done(memcpy(buffer, 0, DeviceByte, address, bufsize), m)

vd_file_sector_get_flash(lba, offset, buffer, bufsize, m, env) ==
    LET flash_address ==
          IF PICOVD_FLASH_START_LBA * EXFAT_BYTES_PER_SECTOR = XIP_BASE
          THEN lba * EXFAT_BYTES_PER_SECTOR
          ELSE (lba - PICOVD_FLASH_START_LBA) * EXFAT_BYTES_PER_SECTOR + XIP_BASE
    IN Done(memcpy(buffer, 0, DeviceByte, flash_address, bufsize), m)

(***************************************************************************)
(* vd_dynamic_area_handler: the registry entry whose run, as sized at      *)
(* registration, holds the cluster decides; its content callback fills the *)
(* first to_copy bytes.                                                    *)
(***************************************************************************)
\* The byte a file's content callback produces for a file offset.
FileContentByte(f, file_offset) == 1 + (((file_offset * 3) + f) % 255)

\* entry->handler(file_offset, buf, to_copy)
content_handler(f, file_offset, buf, to_copy) ==
    [i \in DOMAIN buf |->
        IF i < to_copy THEN FileContentByte(f, file_offset + i) ELSE buf[i]]

dynamic_entry_size(entry) == entry.file_size_bytes

dynamic_entry_holds(entry, cluster) ==
    /\ cluster >= entry.first_cluster
    /\ cluster < entry.first_cluster + clusters_needed(dynamic_entry_size(entry))

vd_dynamic_area_handler(lba, offset, buf, bufsize, m, env) ==
    LET cluster == ((lba - EXFAT_CLUSTER_HEAP_START_LBA) \div EXFAT_SECTORS_PER_CLUSTER)
                     + EXFAT_CLUSTER_HEAP_START_CLUSTER
        cluster_offset == (lba % EXFAT_SECTORS_PER_CLUSTER) * EXFAT_BYTES_PER_SECTOR
                            + offset
        hits == {i \in 1 .. Len(cluster_map) :
                    dynamic_entry_holds(cluster_map[i], cluster)}
    IN IF hits = {}
       THEN Done(memset(buf, 0, 0, bufsize), m)
       ELSE LET entry == cluster_map[CHOOSE i \in hits : \A j \in hits : i <= j]
                size == dynamic_entry_size(entry)
                file_offset == (cluster - entry.first_cluster) * cluster_size_bytes
                                 + cluster_offset
                to_copy == IF file_offset + bufsize > size
                           THEN size - file_offset ELSE bufsize
                b1 == content_handler(entry.handler, file_offset, buf, to_copy)
            IN IF file_offset < size
               THEN [buf  |-> IF to_copy < bufsize
                              THEN memset(b1, to_copy, 0, bufsize - to_copy)
                              ELSE b1,
                     m    |-> m,
                     halt |-> FALSE,
                     cb   |-> [f |-> entry.handler, offset |-> file_offset,
                               len |-> to_copy]]
               ELSE Done(memset(buf, 0, 0, bufsize), m)

(***************************************************************************)
(* Checksums and hashes of the directory code.                             *)
(***************************************************************************)
\* Fold of sum = ROR32(sum) + bytes[off] over off in from .. to-1, in
\* ascending order, positions in skip left out.  The range is split in halves
\* and the left half is evaluated before the right one is entered, to keep
\* the evaluation shallow.
RECURSIVE Sum32Fold(_, _, _, _, _)
Sum32Fold(bytes, skip, from, to, sum) ==
    IF from >= to THEN sum
    ELSE IF to = from + 1
    THEN IF from \in skip THEN sum ELSE add32(ror32(sum), bytes[from])
    ELSE LET mid == (from + to) \div 2
             left == Sum32Fold(bytes, skip, from, mid, sum)
         IN IF left.hi < 65536 THEN Sum32Fold(bytes, skip, mid, to, left) ELSE left

\* One step of the 16-bit rotate-right-and-add of SetChecksum and NameHash.
ror16_add(sum, byte) ==
    ((IF sum % 2 = 1 THEN 32768 ELSE 0) + (sum \div 2) + byte) % 65536

\* The loop of exfat_dirs_compute_setchecksum over i in from .. to-1, in
\* ascending order, split in halves as in Sum32Fold.
RECURSIVE setchecksum_from(_, _, _, _)
setchecksum_from(entries, from, to, sum) ==
    IF from >= to THEN sum
    ELSE IF to = from + 1
    THEN IF from = 2 \/ from = 3 THEN sum ELSE ror16_add(sum, entries[from + 1])
    ELSE LET mid == (from + to) \div 2
             left == setchecksum_from(entries, from, mid, sum)
         IN IF left < 65536 THEN setchecksum_from(entries, mid, to, left) ELSE left

\* exfat_dirs_compute_setchecksum with bytes 2 and 3 summed like the others.
exfat_dirs_compute_setchecksum_no_skip(entries, len) ==
    setchecksum_from(entries, 4, len,
                     ror16_add(ror16_add(setchecksum_from(entries, 0, 2, 0),
                                         entries[3]),
                               entries[4]))

\* exfat_dirs_compute_setchecksum(entries, len): bytes 2 and 3 are skipped.
exfat_dirs_compute_setchecksum(entries, len) == setchecksum_from(entries, 0, len, 0)

\* The loop of vd_exfat_dirs_compute_name_hash over i in from .. to-1, in
\* ascending order, split in halves as in Sum32Fold: the low byte of a code
\* unit, then its high byte.
RECURSIVE name_hash_from(_, _, _, _)
name_hash_from(name, from, to, hash) ==
    IF from >= to THEN hash
    ELSE IF to = from + 1
    THEN ror16_add(ror16_add(hash, name[from + 1] % 256), name[from + 1] \div 256)
    ELSE LET mid == (from + to) \div 2
             left == name_hash_from(name, from, mid, hash)
         IN IF left < 65536 THEN name_hash_from(name, mid, to, left) ELSE left

\* vd_exfat_dirs_compute_name_hash(name, len): over the name as given.
vd_exfat_dirs_compute_name_hash(name, len) == name_hash_from(name, 0, len, 0)

\* compute_upcase_checksum: over the whole up-case region, the words past
\* the table taken as the identity mapping.
exfat_upcase_table_checksum ==
    LET total_bytes ==
          EXFAT_UPCASE_TABLE_LENGTH_CLUSTERS * EXFAT_SECTORS_PER_CLUSTER
            * EXFAT_BYTES_PER_SECTOR
        entry_count == Len(exfat_upcase_table)
        word(word_idx) == IF word_idx < entry_count
                          THEN exfat_upcase_table[word_idx + 1]
                          ELSE word_idx % 65536
        bytes == [byte_idx \in 0 .. total_bytes - 1 |->
                    IF byte_idx % 2 = 1
                    THEN (word(byte_idx \div 2) \div 256) % 256
                    ELSE word(byte_idx \div 2) % 256]
    IN Sum32Fold(bytes, {}, 0, total_bytes, Sum32Zero)

Sum32_LE(x) == << byte_of32(x, 0), byte_of32(x, 1), byte_of32(x, 2), byte_of32(x, 3) >>

(***************************************************************************)
(* Directory entries (vd_exfat_dirs.h, vd_exfat_consts.cpp,                *)
(* vd_exfat_dirs.cpp).                                                     *)
(***************************************************************************)
exfat_entry_type_end_of_directory == 0

exfat_entry_type_unused == 1

exfat_entry_type_allocation_bitmap == 129

exfat_entry_type_upcase_table == 130

exfat_entry_type_volume_label == 131

exfat_entry_type_file_directory == 133

exfat_entry_type_volume_guid == 160

exfat_entry_type_stream_extension == 192

exfat_entry_type_file_name == 193

exfat_utc_offset_UTC == 128

\* Read-only attribute bit of a file entry.
FAT_FILE_ATTR_READ_ONLY == 1

\* UTF-16 code units of the configured names.
PICOVD_VOLUME_LABEL_UTF16 == << 80, 105, 99, 111, 86, 68 >>

PICOVD_SRAM_FILE_NAME == << 83, 82, 65, 77, 46, 66, 73, 78 >>

PICOVD_BOOTROM_FILE_NAME == << 66, 79, 79, 84, 82, 79, 77, 46, 66, 73, 78 >>

PICOVD_FLASH_FILE_NAME == << 70, 76, 65, 83, 72, 46, 66, 73, 78 >>

PICOVD_CHANGING_FILE_NAME == << 67, 72, 65, 78, 71, 73, 78, 71, 46, 84, 88, 84 >>

\* n UTF-16 code units of a name, zero padded, as bytes.
Utf16Bytes(name, n) ==
    Concat([k \in 1 .. n |-> IF k <= Len(name) THEN U16_LE(name[k]) ELSE U16_LE(0)])

volume_label_entry ==
    Concat(<< << exfat_entry_type_volume_label, Len(PICOVD_VOLUME_LABEL_UTF16) >>,
              Utf16Bytes(PICOVD_VOLUME_LABEL_UTF16, 11),
              Zeros(8) >>)

allocation_bitmap_entry ==
    Concat(<< << exfat_entry_type_allocation_bitmap, 0 >>,
              Zeros(18),
              U32_LE(EXFAT_ALLOCATION_BITMAP_START_CLUSTER),
              U64_LE(EXFAT_ALLOCATION_BITMAP_LENGTH_SECTORS * EXFAT_BYTES_PER_SECTOR) >>)

upcase_table_entry ==
    Concat(<< << exfat_entry_type_upcase_table >>,
              Zeros(3),
              Sum32_LE(exfat_upcase_table_checksum),
              Zeros(12),
              U32_LE(EXFAT_UPCASE_TABLE_START_CLUSTER),
              U64_LE(EXFAT_UPCASE_TABLE_LENGTH_CLUSTERS * EXFAT_BYTES_PER_SECTOR
                       * EXFAT_SECTORS_PER_CLUSTER) >>)

\* The initialiser lists four entries: the three above and a generic entry
\* with only entry_type = end_of_directory set.
exfat_root_dir_first_entries_data ==
    Concat(<< volume_label_entry,
              allocation_bitmap_entry,
              upcase_table_entry,
              << exfat_entry_type_end_of_directory >> \o Zeros(31) >>)

\* exfat_file_directory_dir_entry_t, 32 bytes.
FileDirectoryEntry(secondary_count, set_checksum, timestamp, utc_offset) ==
    Concat(<< << exfat_entry_type_file_directory, secondary_count >>,
              U16_LE(set_checksum),
              U16_LE(FAT_FILE_ATTR_READ_ONLY),
              Zeros(2),
              U32_LE(timestamp), U32_LE(timestamp), U32_LE(timestamp),
              << 0, 0, utc_offset, utc_offset, utc_offset >>,
              Zeros(7) >>)

\* exfat_stream_extension_dir_entry_t, 32 bytes.
StreamExtensionEntry(name_length, name_hash, first_cluster, data_length) ==
    Concat(<< << exfat_entry_type_stream_extension, 3, 0, name_length >>,
              U16_LE(name_hash),
              U16_LE(0),
              U64_LE(data_length),
              U32_LE(0),
              U32_LE(first_cluster),
              U64_LE(data_length) >>)

\* exfat_file_name_dir_entry_t, 32 bytes, for up to 15 code units.
FileNameEntry(name) ==
    << exfat_entry_type_file_name, 0 >> \o Utf16Bytes(name, 15)

\* file_dir_entry of vd_exfat_dirs.cpp: two secondaries, no timestamps.
file_dir_entry == FileDirectoryEntry(2, 0, 0, 0)

\* A compile-time file: primary, stream extension, one file name entry.
StaticFileData(name, first_cluster, size_bytes) ==
    Concat(<< file_dir_entry,
              StreamExtensionEntry(Len(name),
                                   vd_exfat_dirs_compute_name_hash(name, Len(name)),
                                   first_cluster, size_bytes),
              FileNameEntry(name) >>)

exfat_root_dir_sram_file_data ==
    StaticFileData(PICOVD_SRAM_FILE_NAME, PICOVD_SRAM_START_CLUSTER,
                   PICOVD_SRAM_SIZE_BYTES)

exfat_root_dir_bootrom_file_data ==
    StaticFileData(PICOVD_BOOTROM_FILE_NAME, PICOVD_BOOTROM_START_CLUSTER,
                   PICOVD_BOOTROM_SIZE_BYTES)

exfat_root_dir_flash_file_data ==
    StaticFileData(PICOVD_FLASH_FILE_NAME, PICOVD_FLASH_START_CLUSTER,
                   PICOVD_FLASH_SIZE_BYTES)

exfat_root_dir_entries ==
    << exfat_root_dir_first_entries_data,
       exfat_root_dir_sram_file_data,
       exfat_root_dir_bootrom_file_data,
       exfat_root_dir_flash_file_data >>

(***************************************************************************)
(* exfat_generate_root_dir_fixed_sector: walks the entry sets; st is the   *)
(* loop state: buffer, write position, bytes left, index in the sector and *)
(* the cached checksums.                                                   *)
(***************************************************************************)
RECURSIVE root_dir_fixed_loop(_, _, _)
\* The body of the loop for entry set i, entries_data being its bytes.
root_dir_fixed_entry_set(i, offset, st, entries_data) ==
    LET entries_len  == Len(entries_data)
        has_checksum == entries_data[1] \in {exfat_entry_type_file_directory,
                                             exfat_entry_type_volume_guid}
        entries_offset == IF offset > st.idx THEN offset - st.idx ELSE 0
        copy_len == Min(entries_len - entries_offset, st.len)
        \* The checksum bytes, where the copy holds bytes 2 and 3 of the set.
        with_low(b1, checksum) ==
            IF has_checksum /\ entries_offset <= 2 /\ copy_len > 2 - entries_offset
            THEN poke(b1, st.pos + 2 - entries_offset, checksum % 256)
            ELSE b1
        with_high(b2, checksum) ==
            IF has_checksum /\ entries_offset <= 3 /\ copy_len > 3 - entries_offset
            THEN poke(b2, st.pos + 3 - entries_offset, (checksum \div 256) % 256)
            ELSE b2
        copied(checksum) ==
            with_high(with_low(memcpy(st.buf, st.pos, LAMBDA k : entries_data[k + 1],
                                      entries_offset, copy_len),
                               checksum),
                      checksum)
        next(st2) == IF st2.len = 0 THEN st2 ELSE root_dir_fixed_loop(i + 1, offset, st2)
        visit(checksum) ==
            IF offset >= st.idx + entries_len
            THEN root_dir_fixed_loop(i + 1, offset,
                                     [st EXCEPT !.sums[i] = checksum,
                                                !.idx = @ + entries_len])
            ELSE next([buf  |-> copied(checksum),
                       pos  |-> st.pos + copy_len,
                       len  |-> st.len - copy_len,
                       idx  |-> st.idx + entries_offset + copy_len,
                       sums |-> [st.sums EXCEPT ![i] = checksum]])
    IN visit(IF st.sums[i] = NotComputed
             THEN exfat_dirs_compute_setchecksum(entries_data, entries_len)
             ELSE st.sums[i])

root_dir_fixed_loop(i, offset, st) ==
    IF i > Len(exfat_root_dir_entries) THEN st
    ELSE root_dir_fixed_entry_set(i, offset, st, exfat_root_dir_entries[i])

exfat_generate_root_dir_fixed_sector(lba, offset, buffer, bufsize, m, env) ==
    LET st == root_dir_fixed_loop(1, offset,
                  [buf |-> buffer, pos |-> 0, len |-> bufsize, idx |-> 0,
                   sums |-> m.set_checksums])
    IN Done(memset(st.buf, st.pos, exfat_entry_type_unused, st.len),
            [m EXCEPT !.set_checksums = st.sums])

(***************************************************************************)
(* The dynamic root-directory slots: eight flash partitions, then the      *)
(* changing file.                                                          *)
(***************************************************************************)
\* What rom_get_partition_table_info returns for a partition: the number of
\* words, the location word (page and size field) and the name.
NoPartition == [words |-> -1, loc |-> 0, name |-> << >>]

RomPartitionTable(part_idx) ==
    IF part_idx = 0
    THEN [words |-> 4, loc |-> 16 + 8 * 131072, name |-> << 102, 119 >>]
    ELSE IF part_idx = 1
    THEN [words |-> 9,
          loc |-> 64 + 2 * 131072,
          name |-> << 112, 97, 114, 116, 105, 116, 105, 111, 110, 45, 110, 117,
                      109, 98, 101, 114, 45, 111, 110, 101 >>]
    ELSE NoPartition

\* Entries of an entry set after the first n_fname file name entries:
\* entry_type = unused, the rest zero.
UnusedNameEntries(count) ==
    Concat([k \in 1 .. count |-> << exfat_entry_type_unused >> \o Zeros(31)])

build_rp2350_partition_entry_set(part_idx, des, env) ==
    LET pt == RomPartitionTable(part_idx)
        flash_page == pt.loc % 131072
        flash_size == ((pt.loc % 67108864) \div 131072) * 4096
        name_len == Len(pt.name) % 128
        n_fname == (name_len + 14) \div 15
        file_name == [k \in 1 .. name_len |-> pt.name[k]]
        name_part(i) ==
            [j \in 1 .. Min(15, name_len - i * 15) |-> pt.name[i * 15 + j]]
        built ==
            Concat(<< FileDirectoryEntry(1 + n_fname, 0, 0, 0),
                      StreamExtensionEntry(
                          name_len,
                          vd_exfat_dirs_compute_name_hash(file_name, name_len),
                          IF flash_size # 0
                          THEN flash_page + PICOVD_FLASH_START_CLUSTER ELSE 0,
                          flash_size),
                      Concat([n \in 1 .. n_fname |-> FileNameEntry(name_part(n - 1))]),
                      UnusedNameEntries(10 - n_fname) >>)
    IN IF pt.words < 3
       THEN [ok |-> FALSE, des |-> des]
       ELSE [ok |-> TRUE, des |-> built]

\* exfat_make_timestamp
exfat_make_timestamp(year, month, day, hour, minute, second) ==
    ((year - 1980) % 128) * 33554432
      + (month % 16) * 2097152
      + (day % 32) * 65536
      + (hour % 32) * 2048
      + (minute % 64) * 32
      + ((second \div 2) % 32)

\* The start cluster the changing file's entry set names.
PICOVD_CHANGING_FILE_START_CLUSTER == 0

files_changing_build_file_partition_entry_set(slot_idx, des, env) ==
    LET total_s == env.uptime
        hours == total_s \div 3600
        mins == (total_s \div 60) % 60
        secs == total_s % 60
        timestamp == exfat_make_timestamp(2025, 1, 1, hours, mins, secs)
        stored(unsummed, checksum) ==
            [k \in 1 .. Len(unsummed) |->
                IF k = 3 THEN checksum % 256
                ELSE IF k = 4 THEN (checksum \div 256) % 256
                ELSE unsummed[k]]
        summed(unsummed) ==
            stored(unsummed, exfat_dirs_compute_setchecksum(unsummed, 3 * 32))
    IN [ok  |-> TRUE,
        des |-> summed(Concat(<<
                    FileDirectoryEntry(2, 0, timestamp, exfat_utc_offset_UTC),
                    StreamExtensionEntry(Len(PICOVD_CHANGING_FILE_NAME), 0,
                                         PICOVD_CHANGING_FILE_START_CLUSTER,
                                         PICOVD_CHANGING_FILE_SIZE_BYTES),
                    FileNameEntry(PICOVD_CHANGING_FILE_NAME),
                    UnusedNameEntries(9) >>))]

\* build_partition_entry_set_table
PartitionSlots == 8

BuilderSlots == PartitionSlots + 1

build_partition_entry_set(slot_idx, des, env) ==
    IF slot_idx < PartitionSlots
    THEN build_rp2350_partition_entry_set(slot_idx, des, env)
    ELSE files_changing_build_file_partition_entry_set(slot_idx, des, env)

\* Whether the slot is built again: only when it is not the one in the buffer.
slot_needs_build(slot_idx, m) == slot_idx # m.slot

exfat_generate_root_dir_dynamic_sector(lba, offset, buffer, bufsize, m, env) ==
    LET slot_idx == lba - EXFAT_ROOT_DIR_START_LBA - 1
        \* The entry set with its SetChecksum stored in bytes 2 and 3.
        stored(des, checksum) ==
            [k \in 1 .. Len(des) |->
                IF k = 3 THEN checksum % 256
                ELSE IF k = 4 THEN (checksum \div 256) % 256
                ELSE des[k]]
        summed(des) ==
            stored(des, exfat_dirs_compute_setchecksum(des, (1 + des[2]) * 32))
        fetched(built) ==
            IF built.ok
            THEN [m EXCEPT !.des = summed(built.des), !.slot = slot_idx]
            ELSE [m EXCEPT !.des = built.des, !.slot = -1]
        \* A copy that runs past the end of the entry set reads what lies
        \* behind it in memory.
        copy(m1) ==
            IF m1.slot >= 0 /\ offset < DynamicEntrySetSize
            THEN Done(memcpy(buffer, 0,
                             LAMBDA k : IF k < DynamicEntrySetSize
                                        THEN m1.des[k + 1] ELSE env.garbage,
                             offset, bufsize),
                      m1)
            ELSE Done(memset(buffer, 0, exfat_entry_type_unused, bufsize), m1)
    IN copy(IF slot_idx < BuilderSlots
            THEN IF slot_needs_build(slot_idx, m)
                 THEN fetched(build_partition_entry_set(slot_idx, m.des, env))
                 ELSE m
            ELSE [m EXCEPT !.slot = -1])

(***************************************************************************)
(* The boot checksum sector.                                               *)
(***************************************************************************)
\* The rows of lba_regions that serve the sectors the checksum is taken
\* over: LBA 0 .. 10.
boot_region_read(lba, offset, buffer, bufsize, m, env) ==
    IF lba < 1 THEN gen_boot_sector(lba, offset, buffer, bufsize, m, env)
    ELSE IF lba < 9 THEN gen_extb_sector(lba, offset, buffer, bufsize, m, env)
    ELSE gen_zero_sector(lba, offset, buffer, bufsize, m, env)

\* The loop of compute_vbr_checksum_runtime_simple from sector lba on: each
\* sector is read in full, bytes 106, 107 and 112 of sector 0 are skipped.
RECURSIVE vbr_checksum_from(_, _, _, _)
vbr_checksum_from(lba, m, env, sum) ==
    IF lba >= 11 THEN sum
    ELSE LET continue(next) ==
                 IF next.hi < 65536 THEN vbr_checksum_from(lba + 1, m, env, next)
                 ELSE next
         IN continue(Sum32Fold(boot_region_read(lba, 0, NewBuffer(MSC_BLOCK_SIZE),
                                                MSC_BLOCK_SIZE, m, env).buf,
                               IF lba = 0 THEN {106, 107, 112} ELSE {},
                               0, MSC_BLOCK_SIZE, sum))

\* The checksum for each volume serial number the boot sector can carry.
vbr_checksum_by_serial ==
    [serial \in BoardIds |->
        vbr_checksum_from(0, [serial |-> serial], [board_id |-> serial], Sum32Zero)]

\* compute_vbr_checksum_runtime_simple: reading sector 0 fixes the serial
\* number if no read has done so before.
compute_vbr_checksum_runtime_simple(m, env) ==
    LET serial == get_volume_serial_number(m, env)
    IN [sum |-> vbr_checksum_by_serial[serial],
        m   |-> [m EXCEPT !.serial = serial]]

\* gen_cksm_sector that flips checksum_cached on every read: a read that
\* finds the checksum cached leaves it not cached.
gen_cksm_sector_flips_cached(lba, offset, buffer, bufsize, m, env) ==
    LET cached(computed) == [computed.m EXCEPT !.checksum = computed.sum]
        fill(m1, m2) ==
            Done([i \in DOMAIN buffer |->
                    IF i < bufsize THEN byte_of32(m1.checksum, (offset + i) % 4)
                    ELSE buffer[i]],
                 m2)
        filled(m1) == fill(m1, m1)
    IN IF m.checksum = NotCached
       THEN filled(cached(compute_vbr_checksum_runtime_simple(m, env)))
       ELSE fill(m, [m EXCEPT !.checksum = NotCached])

\* gen_cksm_sector with the lane taken from the position in the buffer
\* instead of the absolute position in the sector.
gen_cksm_sector_buffer_lane(lba, offset, buffer, bufsize, m, env) ==
    LET cached(computed) == [computed.m EXCEPT !.checksum = computed.sum]
        fill(m1) ==
            Done([i \in DOMAIN buffer |->
                    IF i < bufsize THEN byte_of32(m1.checksum, i % 4)
                    ELSE buffer[i]],
                 m1)
    IN fill(IF m.checksum = NotCached
            THEN cached(compute_vbr_checksum_runtime_simple(m, env))
            ELSE m)

gen_cksm_sector(lba, offset, buffer, bufsize, m, env) ==
    LET asserted == offset < MSC_BLOCK_SIZE /\ bufsize <= MSC_BLOCK_SIZE - offset
        \* The checksum is computed once and kept.
        cached(computed) == [computed.m EXCEPT !.checksum = computed.sum]
        fill(m1) ==
            Done([i \in DOMAIN buffer |->
                    IF i < bufsize THEN byte_of32(m1.checksum, (offset + i) % 4)
                    ELSE buffer[i]],
                 m1)
    IN IF env.asserts /\ ~asserted
       THEN AssertFailed(buffer, m)
       ELSE fill(IF m.checksum = NotCached
                 THEN cached(compute_vbr_checksum_runtime_simple(m, env))
                 ELSE m)

(***************************************************************************)
(* The boot checksum from constants computed at build time                 *)
(* (vd_exfat_consts.cpp) and the serial number.                            *)
(***************************************************************************)
\* sector_byte(lba, off): the byte the build-time code takes the generators
\* to emit.
sector_byte(lba, off) ==
    IF lba = 0
    THEN IF off = 106 \/ off = 107 \/ off = 112 THEN 0
         ELSE IF off < exfat_boot_sector_data_length THEN exfat_boot_sector_data[off + 1]
         ELSE 0
    ELSE IF lba >= 1 /\ lba <= 8
    THEN IF off = 510 THEN 85 ELSE IF off = 511 THEN 170 ELSE 0
    ELSE 0

\* The loop of compute_vbr_checksum from sector index i on.
RECURSIVE compute_vbr_checksum_from(_, _, _, _, _, _)
compute_vbr_checksum_from(i, start_lba, start_offset, lba_count, next_offset, sum) ==
    IF i >= lba_count THEN sum
    ELSE LET lba == start_lba + i
             off_begin == IF i = 0 THEN start_offset ELSE 0
             off_end == IF i = lba_count - 1 THEN next_offset ELSE 512
             continue(next) ==
                 IF next.hi < 65536
                 THEN compute_vbr_checksum_from(i + 1, start_lba, start_offset,
                                                lba_count, next_offset, next)
                 ELSE next
         IN continue(Sum32Fold([off \in 0 .. 511 |-> sector_byte(lba, off)],
                               IF lba = 0 THEN {106, 107, 112} ELSE {},
                               off_begin, off_end, sum))

compute_vbr_checksum(start_lba, start_offset, lba_count, next_offset) ==
    compute_vbr_checksum_from(0, start_lba, start_offset, lba_count, next_offset,
                              Sum32Zero)

EXFAT_VBR_TOTAL_BYTES == 11 * 512

EXFAT_VBR_SUFFIX_START_OFFSET == 104

EXFAT_VBR_SUFFIX_LEN == EXFAT_VBR_TOTAL_BYTES - EXFAT_VBR_SUFFIX_START_OFFSET

EXFAT_VBR_SUFFIX_ROT == EXFAT_VBR_SUFFIX_LEN % 32

EXFAT_VBR_CHECKSUM_PREFIX == compute_vbr_checksum(0, 0, 1, 100)

EXFAT_VBR_CHECKSUM_SUFFIX ==
    compute_vbr_checksum(0, EXFAT_VBR_SUFFIX_START_OFFSET, 11, 512)

\* (x >> n) | (x << (32 - n)), 0 <= n < 32
RECURSIVE ror32_by(_, _)
ror32_by(x, n) == IF n = 0 THEN x ELSE ror32_by(ror32(x), n - 1)

\* (x + y) & 0xFFFFFFFF
add32_word(x, y) ==
    [hi |-> (x.hi + y.hi + ((x.lo + y.lo) \div 65536)) % 65536,
     lo |-> (x.lo + y.lo) % 65536]

\* compute_vbr_checksum_runtime_optimised: sum is the value its last
\* statement leaves in the local variable.  The function ends without a
\* return statement, so what its caller receives is not defined.
compute_vbr_checksum_runtime_optimised(m, env) ==
    LET serial == get_volume_serial_number(m, env)
        step(sum, i) == add32(ror32(sum), serial[i + 1])
        folded == step(step(step(step(EXFAT_VBR_CHECKSUM_PREFIX, 0), 1), 2), 3)
        rotated == ror32_by(folded, EXFAT_VBR_SUFFIX_ROT)
    IN [sum |-> add32_word(rotated, EXFAT_VBR_CHECKSUM_SUFFIX),
        m   |-> [m EXCEPT !.serial = serial]]

(***************************************************************************)
(* The region table and the dispatcher.                                    *)
(***************************************************************************)
lba_regions ==
    Concat(<<
      << [handler |-> "gen_boot_sector", next_lba |-> 1],
         [handler |-> "gen_extb_sector", next_lba |-> 9],
         [handler |-> "gen_zero_sector", next_lba |-> 11],
         [handler |-> "gen_cksm_sector", next_lba |-> 12],
         [handler |-> "gen_boot_sector", next_lba |-> 13],
         [handler |-> "gen_extb_sector", next_lba |-> 21],
         [handler |-> "gen_zero_sector", next_lba |-> 23],
         [handler |-> "gen_cksm_sector", next_lba |-> 24] >>,
      IF EXFAT_FAT_REGION_START_LBA > 24
      THEN << [handler |-> "gen_zero_sector", next_lba |-> EXFAT_FAT_REGION_START_LBA] >>
      ELSE << >>,
      << [handler |-> "gen_fat0_sector", next_lba |-> EXFAT_FAT_REGION_START_LBA + 1],
         [handler |-> "gen_zero_sector", next_lba |-> EXFAT_CLUSTER_HEAP_START_LBA] >>,
      IF EXFAT_ALLOCATION_BITMAP_START_LBA > EXFAT_CLUSTER_HEAP_START_LBA
      THEN << [handler |-> "gen_zero_sector",
               next_lba |-> EXFAT_ALLOCATION_BITMAP_START_LBA] >>
      ELSE << >>,
      << [handler |-> "gen_ones_sector",
          next_lba |-> EXFAT_ALLOCATION_BITMAP_START_LBA
                         + EXFAT_ALLOCATION_BITMAP_LENGTH_SECTORS],
         [handler |-> "gen_upcs_sector",
          next_lba |-> EXFAT_UPCASE_TABLE_START_LBA + EXFAT_UPCASE_TABLE_LENGTH_SECTORS],
         [handler |-> "gen_zero_sector", next_lba |-> EXFAT_ROOT_DIR_START_LBA],
         [handler |-> "exfat_generate_root_dir_fixed_sector",
          next_lba |-> EXFAT_ROOT_DIR_START_LBA + 1],
         [handler |-> "exfat_generate_root_dir_dynamic_sector",
          next_lba |-> EXFAT_ROOT_DIR_START_LBA + EXFAT_ROOT_DIR_LENGTH_SECTORS],
         [handler |-> "vd_dynamic_area_handler",
          next_lba |-> PICOVD_DYNAMIC_AREA_END_LBA],
         [handler |-> "gen_zero_sector", next_lba |-> PICOVD_BOOTROM_START_LBA],
         [handler |-> "vd_file_sector_get_bootrom",
          next_lba |-> PICOVD_BOOTROM_START_LBA
                         + PICOVD_BOOTROM_SIZE_BYTES \div EXFAT_BYTES_PER_SECTOR],
         [handler |-> "gen_zero_sector", next_lba |-> PICOVD_FLASH_START_LBA],
         [handler |-> "vd_file_sector_get_flash",
          next_lba |-> PICOVD_FLASH_START_LBA
                         + PICOVD_FLASH_SIZE_BYTES \div EXFAT_BYTES_PER_SECTOR],
         [handler |-> "gen_zero_sector", next_lba |-> PICOVD_SRAM_START_LBA],
         [handler |-> "vd_file_sector_get_sram",
          next_lba |-> PICOVD_SRAM_START_LBA
                         + PICOVD_SRAM_SIZE_BYTES \div EXFAT_BYTES_PER_SECTOR] >>
    >>)

\* lba_regions[i].handler(lba, offset, buffer, bufsize)
region_handler(name, lba, offset, buffer, bufsize, m, env) ==
    CASE name = "gen_boot_sector" -> gen_boot_sector(lba, offset, buffer, bufsize, m, env)
      [] name = "gen_extb_sector" -> gen_extb_sector(lba, offset, buffer, bufsize, m, env)
      [] name = "gen_zero_sector" -> gen_zero_sector(lba, offset, buffer, bufsize, m, env)
      [] name = "gen_cksm_sector" -> gen_cksm_sector(lba, offset, buffer, bufsize, m, env)
      [] name = "gen_fat0_sector" -> gen_fat0_sector(lba, offset, buffer, bufsize, m, env)
      [] name = "gen_ones_sector" -> gen_ones_sector(lba, offset, buffer, bufsize, m, env)
      [] name = "gen_upcs_sector" -> gen_upcs_sector(lba, offset, buffer, bufsize, m, env)
      [] name = "exfat_generate_root_dir_fixed_sector" ->
             exfat_generate_root_dir_fixed_sector(lba, offset, buffer, bufsize, m, env)
      [] name = "exfat_generate_root_dir_dynamic_sector" ->
             exfat_generate_root_dir_dynamic_sector(lba, offset, buffer, bufsize, m, env)
      [] name = "vd_dynamic_area_handler" ->
             vd_dynamic_area_handler(lba, offset, buffer, bufsize, m, env)
      [] name = "vd_file_sector_get_bootrom" ->
             vd_file_sector_get_bootrom(lba, offset, buffer, bufsize, m, env)
      [] name = "vd_file_sector_get_flash" ->
             vd_file_sector_get_flash(lba, offset, buffer, bufsize, m, env)
      [] name = "vd_file_sector_get_sram" ->
             vd_file_sector_get_sram(lba, offset, buffer, bufsize, m, env)

\* The last region bound: LBAs from here on match no region.
LastRegionBound == lba_regions[Len(lba_regions)].next_lba

\* vd_virtual_disk_read: the first region whose next_lba lies beyond the LBA
\* serves the read; the return value is bufsize.
vd_virtual_disk_read(lba, offset, buffer, bufsize, m, env) ==
    LET hits == {i \in 1 .. Len(lba_regions) : lba < lba_regions[i].next_lba}
        first == CHOOSE i \in hits : \A j \in hits : i <= j
        returns(served) ==
            [buf |-> served.buf, m |-> served.m, halt |-> served.halt,
             cb |-> served.cb, rc |-> bufsize]
    IN returns(IF hits = {}
               THEN Done(memset(buffer, 0, 0, bufsize), m)
               ELSE region_handler(lba_regions[first].handler, lba, offset,
                                   buffer, bufsize, m, env))

tud_msc_read10_cb(lba, offset, buffer, bufsize, m, env) ==
    vd_virtual_disk_read(lba, offset, buffer, bufsize, m, env)

\* The environment of the read of a request on this device.
ReadEnv(req) ==
    [board_id |-> device.board_id, asserts |-> device.asserts,
     garbage |-> device.garbage, uptime |-> req.uptime]

\* The host's next READ10 is served.  The buffer handed to the callback holds
\* none of the bytes this read produces.
ServeRead10(req) ==
    /\ ~halted
    /\ \E r \in {tud_msc_read10_cb(req.lba, req.offset, NewBuffer(req.len),
                                   req.len, statics, ReadEnv(req))} :
          /\ dst' = r.buf
          /\ statics' = r.m
          /\ halted' = r.halt
          /\ content_cb' = r.cb
          /\ call' = [op |-> "READ10", f |-> req.lba, a |-> req.offset,
                      b |-> req.len, rc |-> IF r.halt THEN 0 ELSE r.rc]
    /\ UNCHANGED << next_cluster, cluster_map, files, dir_files, changed_flag,
                    sense, usb_reconnects, hist, device >>

Read10 ==
    /\ host_reads # << >>
    /\ \E req \in {Head(host_reads)} : ServeRead10(req)
    /\ host_reads' = Tail(host_reads)
    /\ UNCHANGED stdout_vars

(***************************************************************************)
(* SCSI commands other than READ10.                                        *)
(***************************************************************************)
UnitAttentionCommands == {"TEST_UNIT_READY", "READ_CAPACITY_10"}

WriteLikeCommands ==
    {"MODE_SELECT_6", "MODE_SELECT_10", "UNMAP", "FORMAT_UNIT", "BLANK",
     "WRITE12", "WRITE16"}

ScsiCommands ==
    UnitAttentionCommands \cup WriteLikeCommands
      \cup {"INQUIRY", "MODE_SENSE_10", "WRITE10"}

UnitAttentionSense ==
    [key  |-> SCSI_SENSE_UNIT_ATTENTION,
     asc  |-> SCSI_ASC_MEDIUM_MAY_HAVE_CHANGED,
     ascq |-> 0]

WriteProtectedSense ==
    [key  |-> SCSI_SENSE_DATA_PROTECT,
     asc  |-> SCSI_ASC_WRITE_PROTECTED,
     ascq |-> SCSI_ASCQ_WRITE_PROTECTED]

\* sizeof(scsi_inquiry_resp_t) and sizeof(scsi_mode_sense10_resp_t)
InquiryRespLen == 36

ModeSense10RespLen == 8

\* tud_msc_scsi_pre_cb: the return value, the flag and the sense data after.
pre_cb_flag_after_keep(cmd) == changed_flag

pre_cb_flag_after(cmd) ==
    IF cmd \in UnitAttentionCommands /\ changed_flag THEN FALSE ELSE changed_flag

tud_msc_scsi_pre_cb(cmd) ==
    IF cmd = "INQUIRY"
    THEN [rc |-> InquiryRespLen, flag |-> changed_flag, sense |-> sense]
    ELSE IF cmd \in UnitAttentionCommands /\ changed_flag
    THEN [rc    |-> TUD_MSC_RET_ERROR,
          flag  |-> pre_cb_flag_after(cmd),
          sense |-> UnitAttentionSense]
    ELSE [rc |-> TUD_MSC_RET_CALL_DEFAULT, flag |-> pre_cb_flag_after(cmd),
          sense |-> sense]

\* tud_msc_scsi_cb: commands the stack does not handle itself.
tud_msc_scsi_cb_no_sense(cmd) ==
    IF cmd \in WriteLikeCommands
    THEN [rc |-> TUD_MSC_RET_ERROR, sense |-> sense]
    ELSE IF cmd = "MODE_SENSE_10"
    THEN [rc |-> ModeSense10RespLen, sense |-> sense]
    ELSE [rc |-> -1, sense |-> sense]

tud_msc_scsi_cb(cmd) ==
    IF cmd \in WriteLikeCommands
    THEN [rc |-> TUD_MSC_RET_ERROR, sense |-> WriteProtectedSense]
    ELSE IF cmd = "MODE_SENSE_10"
    THEN [rc |-> ModeSense10RespLen, sense |-> sense]
    ELSE [rc |-> -1, sense |-> sense]

\* tud_msc_write10_cb
tud_msc_write10_cb == [rc |-> TUD_MSC_RET_ERROR, sense |-> WriteProtectedSense]

\* tud_msc_test_unit_ready_cb and tud_msc_capacity_cb: always ready, always
\* answered; the command completes with status GOOD (0).
tud_msc_test_unit_ready_cb == 0

\* One host command: the pre-callback first, then the default handling.
HostCommand(cmd) ==
    LET pre == tud_msc_scsi_pre_cb(cmd)
        dflt == IF cmd \in UnitAttentionCommands
                THEN [rc |-> tud_msc_test_unit_ready_cb, sense |-> sense]
                ELSE IF cmd = "WRITE10" THEN tud_msc_write10_cb
                ELSE tud_msc_scsi_cb(cmd)
        handled == pre.rc # TUD_MSC_RET_CALL_DEFAULT
    IN
    /\ ~halted
    /\ changed_flag' = pre.flag
    /\ sense' = IF handled THEN pre.sense ELSE dflt.sense
    /\ call' = [op |-> cmd, f |-> 0, a |-> 0, b |-> 0,
                rc |-> IF handled THEN pre.rc ELSE dflt.rc]
    /\ UNCHANGED << next_cluster, cluster_map, files, dir_files, usb_reconnects,
                    hist, read_vars, stdout_vars >>

(***************************************************************************)
(* stdio_ring_buffer.c: the log stream.  rb.data is stdio_ring_buffer_data, *)
(* rb.ptr the write position as an index (rb->ptr - rb->beg), rb.tot the    *)
(* total number of bytes written.                                          *)
(***************************************************************************)
\* The length of the buffer is a build parameter (default 4096); the model
\* is built with a shorter one.
PICO_STDIO_RING_BUFFER_LEN == 256

PICO_STDIO_RING_BUFFER_WRITE_SHORT_LEN == 8

\* Writes in a run, and how long the clock runs.
MaxWrites == 2

MaxUptimeMs == 10060

\* rb->end - rb->beg
ring_buffer_capacity == PICO_STDIO_RING_BUFFER_LEN

\* The byte the application writes at a position of the stream.
StreamByte(pos) == 1 + (pos % 251)

InitialRing ==
    [data |-> [i \in 0 .. ring_buffer_capacity - 1 |-> 0], ptr |-> 0, tot |-> 0]

ring_buffer_assert(r) ==
    /\ 0 <= r.ptr
    /\ r.ptr < ring_buffer_capacity
    /\ r.tot % ring_buffer_capacity = r.ptr

\* The byte loop of a short write: *(rb->ptr++) = *buf++, wrapping at end.
RECURSIVE ring_write_bytes(_, _, _)
ring_write_bytes(r, from, len) ==
    IF len = 0 THEN r
    ELSE ring_write_bytes(
             [r EXCEPT !.data = poke(r.data, r.ptr, StreamByte(from)),
                       !.ptr = IF r.ptr + 1 = ring_buffer_capacity THEN 0 ELSE r.ptr + 1],
             from + 1, len - 1)

\* ring_buffer_write after rb->tot += len: buf holds the bytes of the stream
\* from position from on.  Of a write longer than the capacity the last
\* capacity bytes are stored, from the write position on.
ring_buffer_write(r, from, buf_len) ==
    LET capacity == ring_buffer_capacity
        skipped == IF buf_len > capacity THEN buf_len - capacity ELSE 0
        len == buf_len - skipped
        src(k) == StreamByte(from + skipped + k)
        to_end == capacity - r.ptr
    IN IF len < PICO_STDIO_RING_BUFFER_WRITE_SHORT_LEN
       THEN ring_write_bytes(r, from + skipped, len)
       ELSE IF len < to_end
       THEN [r EXCEPT !.data = memcpy(r.data, r.ptr, src, 0, len),
                      !.ptr = r.ptr + len]
       ELSE [r EXCEPT !.data = memcpy(memcpy(r.data, r.ptr, src, 0, to_end),
                                      0, src, to_end, len - to_end),
                      !.ptr = len - to_end]

\* The first stream position the window holds, always the start of the stream.
ring_start_offset_zero(tot, capacity) == 0

\* The first stream position the window holds.
ring_start_offset(tot, capacity) == IF tot > capacity THEN tot - capacity ELSE 0

\* ring_buffer_get(rb, offset, buf, len): the buffer after the call and the
\* number of bytes copied.
ring_buffer_get(r, offset, buf, len) ==
    LET capacity == ring_buffer_capacity
        start_offset == ring_start_offset(r.tot, capacity)
        end_offset == r.tot
        actual_start == IF offset < start_offset THEN start_offset ELSE offset
        actual_end == IF offset + len > end_offset THEN end_offset ELSE offset + len
        actual_len == actual_end - actual_start
        buf_offset == IF actual_start > offset THEN actual_start - offset ELSE 0
        start_idx == actual_start % capacity
        first_chunk_len == capacity - start_idx
        data(k) == r.data[k]
    IN IF offset >= end_offset \/ offset + len <= start_offset
       THEN [buf |-> buf, rc |-> 0]
       ELSE IF actual_len <= first_chunk_len
       THEN [buf |-> memcpy(buf, buf_offset, data, start_idx, actual_len),
             rc  |-> actual_len]
       ELSE [buf |-> memcpy(memcpy(buf, buf_offset, data, start_idx, first_chunk_len),
                            buf_offset + first_chunk_len, data, 0,
                            actual_len - first_chunk_len),
             rc  |-> actual_len]

\* mutex_enter_blocking goes on whoever holds the mutex.
NoOwner == "none"

mutex_is_free_always(owner) == TRUE

\* mutex_enter_blocking goes on once nobody holds the mutex.
mutex_is_free(owner) == owner = NoOwner

(***************************************************************************)
(* vd_files_stdout.c: the two log files and the notifier.                  *)
(***************************************************************************)
PICOVD_STDOUT_TAIL_UA_MINIMUM_AMOUNT == 128

PICOVD_STDOUT_TAIL_UA_DELAY_SEC == 10

PICOVD_STDOUT_TAIL_UA_TIMEOUT_SEC == 30

\* The size of the USB endpoint buffer (tusb_config.h).
CFG_TUD_MSC_EP_BUFSIZE == 64

\* The files: STDOUT.TXT and STDOUT-TAIL.TXT.
stdout_dynamic_file == 1

stdout_dynamic_tail_file == 2

\* The max_size_bytes vd_files_stdout_init passes for both files.
StdoutMaxSizeBytes == 10 * 1024 * 1024

InitialNotifier ==
    [total_read     |-> 0,      \* stdout_tail_total_read
     last_read_time |-> 0,      \* stdout_tail_last_read_time
     ua_pending     |-> 0,      \* stdout_tail_ua_pending
     window_start   |-> 0,      \* tail_file_window_start
     window_size    |-> 0,      \* tail_file_window_size
     alarm          |-> 0]      \* tail_timeout_alarm

\* Execution contexts: the main loop with the USB task, the application on
\* the other core, and the interrupt the alarm pool calls back from.
WriterContexts == {"main", "core1"}

Idle == [pc |-> "idle", who |-> "none", len |-> 0, offset |-> 0, total |-> 0]

InitialCtx == [init |-> "start", wr |-> Idle, rd |-> Idle, tm |-> Idle]

NoGet == [offset |-> 0, len |-> 0, buf |-> << >>, rc |-> 0, tot |-> 0, torn |-> FALSE]

\* A run of notify_files_changed: when and by whom it was started, the
\* unread count and the total it found, when the host last read the tail
\* file and when the alarm was armed, and whether it has run to its end.
NoNotification ==
    [at |-> -1, unread |-> 0, by |-> "none", total |-> 0, tail_read_at |-> -1,
     armed_at |-> -1, done |-> FALSE]

InitialTrace ==
    [got          |-> NoGet,            \* the last stdio_ring_buffer_get_data
     writes       |-> 0,                \* writes started so far
     touched      |-> {},               \* contexts that accessed registry or notifier
     notified     |-> NoNotification,   \* the last run of notify_files_changed
     armed_at     |-> -1,               \* when the pending alarm was armed
     tail_read_at |-> -1,               \* the last host read of the tail file
     runs_at_copy |-> 0]                \* completed notifications when the last write stored its bytes

\* No alarm is pending.
NoAlarm == -1

InitialClock == [ms |-> 0, due |-> NoAlarm]

\* The variables no step of the log stream changes but through vd_add_file
\* and vd_update_file.
disk_vars ==
    << next_cluster, cluster_map, files, dir_files, changed_flag, sense,
       usb_reconnects, hist, call, dst, content_cb, statics, device, host_reads >>

\* The main context runs: the start-up is over and no interrupt handler is
\* in progress.
MainRuns == ctx.init = "running" /\ ctx.tm.pc = "idle"

\* Context who can start something new.
CanStart(who) ==
    /\ ctx.init = "running"
    /\ (who = "main") => (MainRuns /\ ctx.rd.pc = "idle")
    /\ ctx.wr.pc = "idle"

\* vd_files_stdout_init: vd_add_file of the full log file, then of the tail
\* file.  The call of the notify callback that ends it finds nothing written.
StdoutInitAddFile ==
    /\ ctx.init \in {"start", "full_added"}
    /\ \E f \in {IF ctx.init = "start" THEN stdout_dynamic_file
                 ELSE stdout_dynamic_tail_file} :
          VdAddFile(f, 0, StdoutMaxSizeBytes)
    /\ ctx' = [ctx EXCEPT !.init = IF ctx.init = "start" THEN "full_added"
                                   ELSE "running"]
    /\ trace' = [trace EXCEPT !.touched = @ \cup {"main"}]
    /\ UNCHANGED << rb, mutex, notifier, clock >>

(***************************************************************************)
(* stdio_ring_buffer_out_chars, step by step.                              *)
(***************************************************************************)
\* mutex_enter_blocking
OutCharsEnter(who, len) ==
    /\ ~halted
    /\ CanStart(who)
    /\ trace.writes < MaxWrites
    /\ mutex_is_free(mutex)
    /\ mutex' = who
    /\ ctx' = [ctx EXCEPT !.wr = [Idle EXCEPT !.pc = "locked", !.who = who,
                                              !.len = len]]
    /\ trace' = [trace EXCEPT !.writes = @ + 1]
    /\ UNCHANGED << rb, notifier, clock, halted, disk_vars >>

\* ring_buffer_assert(rb); rb->tot += len
WriteCount ==
    /\ ~halted
    /\ ctx.wr.pc = "locked"
    /\ (ctx.wr.who = "main") => MainRuns
    /\ IF device.asserts /\ ~ring_buffer_assert(rb)
       THEN halted' = TRUE /\ UNCHANGED << rb, ctx >>
       ELSE /\ rb' = [rb EXCEPT !.tot = @ + ctx.wr.len]
            /\ ctx' = [ctx EXCEPT !.wr.pc = "counted", !.wr.offset = rb.tot]
            /\ UNCHANGED halted
    /\ UNCHANGED << mutex, notifier, clock, trace, disk_vars >>

\* The copy into the buffer, and ring_buffer_assert(rb) after it.
WriteCopy ==
    /\ ~halted
    /\ ctx.wr.pc = "counted"
    /\ (ctx.wr.who = "main") => MainRuns
    /\ \E written \in {ring_buffer_write(rb, ctx.wr.offset, ctx.wr.len)} :
          /\ rb' = written
          /\ halted' = (device.asserts /\ ~ring_buffer_assert(written))
    /\ ctx' = [ctx EXCEPT !.wr.pc = "copied"]
    /\ trace' = [trace EXCEPT !.runs_at_copy = notifier.ua_pending]
    /\ UNCHANGED << mutex, notifier, clock, disk_vars >>

\* stdout_notify_write_cb(rb, len, rb->tot): what it decides.
stdout_notify_write_cb(total_bytes_written, n, now) ==
    LET unread == total_bytes_written - n.total_read
    IN IF unread > PICOVD_STDOUT_TAIL_UA_MINIMUM_AMOUNT
       THEN IF n.ua_pending = 0
               /\ now - n.last_read_time >= PICOVD_STDOUT_TAIL_UA_DELAY_SEC
            THEN "notify"
            ELSE IF n.alarm = 0 THEN "arm" ELSE "none"
       ELSE "none"

\* rb->notify_write_cb(rb, len, rb->tot), in the context of the writer.  The
\* alarm is armed with add_alarm_in_ms(PICOVD_STDOUT_TAIL_UA_TIMEOUT_SEC, ..).
WriteNotify ==
    /\ ~halted
    /\ ctx.wr.pc = "copied"
    /\ (ctx.wr.who = "main") => MainRuns
    /\ \E decision \in {stdout_notify_write_cb(rb.tot, notifier, clock.ms \div 1000)} :
          /\ ctx' = [ctx EXCEPT !.wr.pc = IF decision = "notify" THEN "notify_tail"
                                          ELSE "notified",
                                !.wr.total = rb.tot]
          /\ notifier' = IF decision = "arm" THEN [notifier EXCEPT !.alarm = 1]
                         ELSE notifier
          /\ clock' = IF decision = "arm"
                      THEN [clock EXCEPT !.due = clock.ms + PICOVD_STDOUT_TAIL_UA_TIMEOUT_SEC]
                      ELSE clock
          /\ trace' = [trace EXCEPT
                          !.touched = @ \cup {ctx.wr.who},
                          !.armed_at = IF decision = "arm" THEN clock.ms ELSE @,
                          !.notified = IF decision = "notify"
                                       THEN [at |-> clock.ms,
                                             unread |-> rb.tot - notifier.total_read,
                                             by |-> "write", total |-> rb.tot,
                                             tail_read_at |-> trace.tail_read_at,
                                             armed_at |-> trace.armed_at,
                                             done |-> FALSE]
                                       ELSE @]
    /\ UNCHANGED << rb, mutex, halted, disk_vars >>

\* mutex_exit
OutCharsExit ==
    /\ ~halted
    /\ ctx.wr.pc = "notified"
    /\ (ctx.wr.who = "main") => MainRuns
    /\ mutex' = NoOwner
    /\ ctx' = [ctx EXCEPT !.wr = Idle]
    /\ UNCHANGED << rb, notifier, clock, trace, halted, disk_vars >>

(***************************************************************************)
(* notify_files_changed(total_bytes_written), called by the notify         *)
(* callback (by = "wr") and by ua_timeout_cb (by = "tm").                  *)
(***************************************************************************)
\* unread, truncated to the previous multiple of CFG_TUD_MSC_EP_BUFSIZE.
notify_rounded_unread_exact(total_bytes_written, n) ==
    total_bytes_written - n.total_read

notify_rounded_unread(total_bytes_written, n) ==
    ((total_bytes_written - n.total_read) \div CFG_TUD_MSC_EP_BUFSIZE)
       * CFG_TUD_MSC_EP_BUFSIZE

\* The window, and vd_update_file of the tail file.
NotifyTail(by) ==
    /\ ctx[by].pc = "notify_tail"
    /\ (by = "wr" /\ ctx.wr.who = "main") => MainRuns
    /\ \E rounded_unread \in {notify_rounded_unread(ctx[by].total, notifier)} :
          /\ notifier' = [notifier EXCEPT !.window_start = notifier.total_read,
                                          !.window_size = rounded_unread]
          /\ VdUpdateFile(stdout_dynamic_tail_file, rounded_unread)
    /\ ctx' = [ctx EXCEPT ![by].pc = "notify_full"]
    /\ trace' = [trace EXCEPT !.touched = @ \cup {IF by = "tm" THEN "irq" ELSE ctx.wr.who}]
    /\ UNCHANGED << rb, mutex, clock >>

\* vd_update_file of the full log file and stdout_tail_ua_pending++.
NotifyFull(by) ==
    /\ ctx[by].pc = "notify_full"
    /\ (by = "wr" /\ ctx.wr.who = "main") => MainRuns
    /\ VdUpdateFile(stdout_dynamic_file, ctx[by].total)
    /\ notifier' = [notifier EXCEPT !.ua_pending = @ + 1]
    /\ ctx' = [ctx EXCEPT ![by].pc = "notified"]
    /\ trace' = [trace EXCEPT !.notified.done = TRUE]
    /\ UNCHANGED << rb, mutex, clock >>

(***************************************************************************)
(* The alarm: ua_timeout_cb runs in interrupt context once the alarm is    *)
(* due, and no time passes beyond a due alarm before it has run.           *)
(***************************************************************************)
TimerFires ==
    /\ ~halted
    /\ ctx.tm.pc = "idle"
    /\ clock.due # NoAlarm
    /\ clock.ms >= clock.due
    /\ ctx' = [ctx EXCEPT !.tm = [Idle EXCEPT !.pc = "notify_tail", !.who = "irq",
                                              !.total = rb.tot]]
    /\ clock' = [clock EXCEPT !.due = NoAlarm]
    /\ trace' = [trace EXCEPT
                    !.touched = @ \cup {"irq"},
                    !.notified = [at |-> clock.ms,
                                  unread |-> rb.tot - notifier.total_read,
                                  by |-> "timer", total |-> rb.tot,
                                  tail_read_at |-> trace.tail_read_at,
                                  armed_at |-> trace.armed_at,
                                  done |-> FALSE]]
    /\ UNCHANGED << rb, mutex, notifier, halted, disk_vars >>

\* ua_timeout_cb after notify_files_changed: tail_timeout_alarm = 0; return 0.
\* The code of the other core runs between the two.
TimerReturns ==
    /\ ctx.tm.pc = "notified"
    /\ notifier' = [notifier EXCEPT !.alarm = 0]
    /\ ctx' = [ctx EXCEPT !.tm = Idle]
    /\ UNCHANGED << rb, mutex, clock, trace, halted, disk_vars >>

\* A write takes no time on the scale of the clock.  Time is followed up to
\* MaxUptimeMs, and beyond it as far as a pending alarm is due.
Tick(ms) ==
    /\ ~halted
    /\ ctx.tm.pc = "idle"
    /\ ctx.wr.pc = "idle"
    /\ ms > 0
    /\ (clock.due = NoAlarm) => (clock.ms + ms <= MaxUptimeMs)
    /\ (clock.due # NoAlarm) => (clock.ms + ms <= clock.due)
    /\ clock' = [clock EXCEPT !.ms = @ + ms]
    /\ UNCHANGED << rb, mutex, notifier, ctx, trace, halted, disk_vars >>

(***************************************************************************)
(* stdio_ring_buffer_get_data(offset, buf, len), called in the main        *)
(* context, step by step.                                                  *)
(***************************************************************************)
GetDataCall(offset, len) ==
    /\ ~halted
    /\ MainRuns
    /\ ctx.rd.pc = "idle"
    /\ (ctx.wr.who = "main") => (ctx.wr.pc = "idle")
    /\ ctx' = [ctx EXCEPT !.rd = [Idle EXCEPT !.pc = "waiting", !.who = "main",
                                              !.offset = offset, !.len = len]]
    /\ UNCHANGED << rb, mutex, notifier, clock, trace, halted, disk_vars >>

\* mutex_enter_blocking
GetDataEnter ==
    /\ ~halted
    /\ MainRuns
    /\ ctx.rd.pc = "waiting"
    /\ mutex_is_free(mutex)
    /\ mutex' = "main"
    /\ ctx' = [ctx EXCEPT !.rd.pc = "locked"]
    /\ UNCHANGED << rb, notifier, clock, trace, halted, disk_vars >>

\* ring_buffer_get and mutex_exit.  The destination holds none of the bytes
\* the read produces.
GetDataReturn ==
    /\ ~halted
    /\ MainRuns
    /\ ctx.rd.pc = "locked"
    /\ IF device.asserts /\ ~ring_buffer_assert(rb)
       THEN halted' = TRUE /\ UNCHANGED << mutex, ctx, trace >>
       ELSE /\ \E r \in {ring_buffer_get(rb, ctx.rd.offset, NewBuffer(ctx.rd.len),
                                         ctx.rd.len)} :
                  trace' = [trace EXCEPT !.got =
                               [offset |-> ctx.rd.offset, len |-> ctx.rd.len,
                                buf |-> r.buf, rc |-> r.rc, tot |-> rb.tot,
                                torn |-> ctx.wr.pc = "counted"]]
            /\ mutex' = IF mutex = "main" THEN NoOwner ELSE mutex
            /\ ctx' = [ctx EXCEPT !.rd = Idle]
            /\ UNCHANGED halted
    /\ UNCHANGED << rb, notifier, clock, disk_vars >>

(***************************************************************************)
(* The host reads the first sector of the tail file, as the directory      *)
(* advertises it.                                                          *)
(***************************************************************************)
FirstLbaOfCluster(cluster) ==
    EXFAT_CLUSTER_HEAP_START_LBA
      + (cluster - EXFAT_CLUSTER_HEAP_START_CLUSTER) * EXFAT_SECTORS_PER_CLUSTER

\* stdout_tail_file_content_cb(offset, buf, bufsize): what it does to the
\* read high-water mark.
stdout_tail_file_content_cb(offset, bufsize, n) ==
    IF offset >= n.window_size THEN n
    ELSE LET to_copy == IF offset + bufsize > n.window_size
                        THEN n.window_size - offset ELSE bufsize
         IN IF n.window_start + offset + to_copy > n.total_read
            THEN [n EXCEPT !.total_read = n.window_start + offset + to_copy]
            ELSE n

\* The read, and the content callback of the tail file where the handler of
\* the dynamic area has called it.
HostReadsTail ==
    /\ MainRuns
    /\ ctx.rd.pc = "idle"
    /\ (ctx.wr.who = "main") => (ctx.wr.pc = "idle")
    /\ files[stdout_dynamic_tail_file].size_bytes > 0
    /\ ServeRead10([lba    |-> FirstLbaOfCluster(files[stdout_dynamic_tail_file].first_cluster),
                    offset |-> 0,
                    len    |-> CFG_TUD_MSC_EP_BUFSIZE,
                    uptime |-> clock.ms \div 1000])
    /\ notifier' = IF content_cb'.f = stdout_dynamic_tail_file
                   THEN stdout_tail_file_content_cb(content_cb'.offset,
                                                    content_cb'.len, notifier)
                   ELSE notifier
    /\ trace' = [trace EXCEPT !.tail_read_at = clock.ms]
    /\ UNCHANGED << host_reads, rb, mutex, ctx, clock >>

(***************************************************************************)
(* Inputs.                                                                 *)
(***************************************************************************)
\* File sizes the callers use: empty, a byte, around one cluster, and sizes
\* that fill the dynamic area exactly or leave one cluster free.
ApiSizes ==
    {0, cluster_size_bytes, cluster_size_bytes + 1,
     DynamicAreaBytes - cluster_size_bytes, DynamicAreaBytes}

\* Registrations: << initial size_bytes, max_size_bytes >>.
AddInputs ==
    {<< 0, 2 * cluster_size_bytes >>,
     << cluster_size_bytes, cluster_size_bytes >>,
     << cluster_size_bytes + 1, 2 * cluster_size_bytes >>,
     << DynamicAreaBytes - cluster_size_bytes, DynamicAreaBytes >>,
     << DynamicAreaBytes, DynamicAreaBytes >>}

\* The state after construction: nothing registered, no notification
\* pending, nothing read yet.
InitFirmware ==
    /\ next_cluster = PICOVD_DYNAMIC_AREA_START_CLUSTER
    /\ cluster_map = << >>
    /\ files = [f \in FileIds |-> [first_cluster |-> 0, size_bytes |-> 0]]
    /\ dir_files = {}
    /\ changed_flag = FALSE
    /\ sense = NoSense
    /\ usb_reconnects = 0
    /\ call = NoCall
    /\ hist = [f \in FileIds |-> NoHist]
    /\ dst = << >>
    /\ content_cb = NoCallback
    /\ statics = InitialStatics
    /\ halted = FALSE
    /\ rb = InitialRing
    /\ mutex = NoOwner
    /\ notifier = InitialNotifier
    /\ ctx = InitialCtx
    /\ clock = InitialClock
    /\ trace = InitialTrace

\* A release build on a board with a non-zero id, and a host that reads
\* nothing.
Init ==
    /\ InitFirmware
    /\ device = [board_id |-> << 120, 86, 52, 230 >>, asserts |-> FALSE,
                 garbage |-> 165]
    /\ host_reads = << >>

AddFile ==
    /\ \E f \in FileIds, in \in AddInputs : VdAddFile(f, in[1], in[2])
    /\ UNCHANGED stdout_vars

UpdateFile ==
    /\ \E f \in FileIds, s \in ApiSizes : VdUpdateFile(f, s)
    /\ UNCHANGED stdout_vars

NotifyChanged == \E hard \in BOOLEAN : ContentsChanged(hard)

\* The commands the host sends in the model: every command the callbacks
\* tell apart.
HostCommands == ScsiCommands

ScsiCommand == \E cmd \in HostCommands : HostCommand(cmd)

\* The host polls with the commands that report a pending notification.
Poll == \E cmd \in UnitAttentionCommands : HostCommand(cmd)

Next == AddFile \/ UpdateFile \/ NotifyChanged \/ Poll

Spec == Init /\ [][Next]_vars

(***************************************************************************)
(* Reads of the fixed regions.  The host sends one READ10, or two of which *)
(* the first has filled one of the caches.                                 *)
(***************************************************************************)
\* One sector of every region, the sectors around the region bounds that
\* matter, and sectors past the last region.
ReadLbas ==
    {0, 1, 9, 11, 12, 23, EXFAT_FAT_REGION_START_LBA, EXFAT_FAT_REGION_START_LBA + 1,
     EXFAT_ALLOCATION_BITMAP_START_LBA, EXFAT_UPCASE_TABLE_START_LBA,
     EXFAT_ROOT_DIR_START_LBA, EXFAT_ROOT_DIR_START_LBA + 1,
     EXFAT_ROOT_DIR_START_LBA + 2, EXFAT_ROOT_DIR_START_LBA + 3,
     EXFAT_ROOT_DIR_START_LBA + BuilderSlots,
     EXFAT_ROOT_DIR_START_LBA + BuilderSlots + 1,
     PICOVD_DYNAMIC_AREA_START_LBA, PICOVD_BOOTROM_START_LBA,
     PICOVD_FLASH_START_LBA, PICOVD_SRAM_START_LBA, LastRegionBound,
     MSC_TOTAL_BLOCKS - 1}

\* Slices << offset, len >> of a sector: the whole sector, endpoint-sized
\* pieces, and short pieces at the serial number and at the signature.
ReadSlices ==
    {<< 0, 512 >>, << 0, 64 >>, << 64, 64 >>, << 352, 64 >>, << 448, 64 >>,
     << 0, 1 >>, << 101, 3 >>, << 510, 1 >>, << 511, 1 >>}

ReadRequest(lba, slice, uptime) ==
    [lba |-> lba, offset |-> slice[1], len |-> slice[2], uptime |-> uptime]

\* The sector of the changing file's entry set.
ChangingFileSlotLba == EXFAT_ROOT_DIR_START_LBA + BuilderSlots

\* The uptime shows only in the entry set of the changing file, so only its
\* sector is also read at a later time.
\* Slices of a root directory sector that hold byte 2 or 3 of an entry
\* set: of a slot, and of the three files of the fixed sector.
SetChecksumSlices ==
    {<< 2, 2 >>, << 3, 1 >>, << 128, 64 >>, << 131, 1 >>, << 226, 4 >>, << 320, 3 >>}

RootDirLbas == EXFAT_ROOT_DIR_START_LBA .. EXFAT_ROOT_DIR_START_LBA + BuilderSlots

ReadRequests ==
    {ReadRequest(lba, slice, 0) : lba \in ReadLbas, slice \in ReadSlices}
      \cup {ReadRequest(ChangingFileSlotLba, slice, uptime) :
               slice \in ReadSlices, uptime \in UptimeSeconds}
      \cup {ReadRequest(lba, slice, 0) :
               lba \in RootDirLbas \cap ReadLbas, slice \in SetChecksumSlices}

\* Reads that fill a cache: the serial number, the boot checksum, the set
\* checksums of the fixed sector (by a slice of its second entry set), the
\* entry set buffer.
WarmUpRequests ==
    {ReadRequest(0, << 0, 512 >>, 0),
     ReadRequest(11, << 0, 512 >>, 0),
     ReadRequest(EXFAT_ROOT_DIR_START_LBA, << 128, 64 >>, 0),
     ReadRequest(EXFAT_ROOT_DIR_START_LBA + 1, << 0, 512 >>, 0),
     ReadRequest(ChangingFileSlotLba, << 0, 512 >>, 0)}

\* Reads of the sectors whose content comes out of a cache.
CachedReadRequests ==
    {ReadRequest(lba, slice, 0) :
        lba \in {0, 11, EXFAT_ROOT_DIR_START_LBA, EXFAT_ROOT_DIR_START_LBA + 1,
                 EXFAT_ROOT_DIR_START_LBA + 2},
        slice \in {<< 0, 512 >>, << 64, 64 >>}}
      \cup {ReadRequest(ChangingFileSlotLba, slice, uptime) :
               slice \in {<< 0, 512 >>, << 64, 64 >>}, uptime \in UptimeSeconds}

ReadScripts ==
    {<< r >> : r \in ReadRequests}
      \cup {<< w, r >> : w \in WarmUpRequests, r \in CachedReadRequests}

InitRead ==
    /\ InitFirmware
    /\ device \in Devices
    /\ host_reads \in ReadScripts

NextRead == Read10

SpecRead == InitRead /\ [][NextRead]_vars

(***************************************************************************)
(* The boot checksum computed from the build-time constants, for a range   *)
(* of volume serial numbers.                                               *)
(***************************************************************************)
\* Bytes of a serial number: all bits clear, the lowest, the highest, all.
SerialBytes == {0, 1, 128, 255}

SerialNumbers == [1 .. 4 -> SerialBytes]

ChecksumDevices ==
    [board_id : SerialNumbers, asserts : {FALSE}, garbage : GarbageBytes]

InitChecksum ==
    /\ InitFirmware
    /\ device \in ChecksumDevices
    /\ host_reads = << >>

\* What is found in the return register when nothing was put there.
GarbageWord(env) == [hi |-> 257 * env.garbage, lo |-> 257 * env.garbage]

\* A call of compute_vbr_checksum_runtime_optimised; dst receives the four
\* bytes of what the caller gets.
ChecksumOptimised ==
    /\ ~halted
    /\ call.op = "none"
    /\ \E env \in {[board_id |-> device.board_id, asserts |-> device.asserts,
                     garbage |-> device.garbage, uptime |-> 0]} :
       \E r \in {compute_vbr_checksum_runtime_optimised(statics, env)} :
       \E returned \in {r.sum, GarbageWord(env)} :
          /\ dst' = [i \in 0 .. 3 |-> byte_of32(returned, i)]
          /\ statics' = r.m
          /\ call' = [op |-> "VBR_OPTIMISED", f |-> 0, a |-> 0, b |-> 4, rc |-> 4]
    /\ UNCHANGED << next_cluster, cluster_map, files, dir_files, changed_flag,
                    sense, usb_reconnects, hist, content_cb, halted, device,
                    host_reads >>
    /\ UNCHANGED stdout_vars

NextChecksum == ChecksumOptimised

SpecChecksum == InitChecksum /\ [][NextChecksum]_vars

(***************************************************************************)
(* Reads of the dynamic area while callers register and resize files.      *)
(***************************************************************************)
\* The first two clusters a registration is given, and the third.
FileReadLbas ==
    {PICOVD_DYNAMIC_AREA_START_LBA, PICOVD_DYNAMIC_AREA_START_LBA + 1,
     PICOVD_DYNAMIC_AREA_START_LBA + EXFAT_SECTORS_PER_CLUSTER,
     PICOVD_DYNAMIC_AREA_START_LBA + 2 * EXFAT_SECTORS_PER_CLUSTER}

FileReadSlices == {<< 0, 512 >>, << 0, 64 >>, << 448, 64 >>}

FileReadScripts ==
    {<< ReadRequest(lba, slice, 0) >> : lba \in FileReadLbas, slice \in FileReadSlices}

\* Registrations << initial size_bytes, max_size_bytes >> and new sizes.
FileAddInputs ==
    {<< 0, cluster_size_bytes >>, << cluster_size_bytes + 1, 2 * cluster_size_bytes >>}

FileUpdateSizes == {0, 1, cluster_size_bytes}

InitFiles ==
    /\ Init!1
    /\ Init!2
    /\ host_reads \in FileReadScripts

RegisterFile ==
    /\ \E f \in FileIds, in \in FileAddInputs : VdAddFile(f, in[1], in[2])
    /\ UNCHANGED stdout_vars

ResizeFile ==
    /\ \E f \in FileIds, s \in FileUpdateSizes : VdUpdateFile(f, s)
    /\ UNCHANGED stdout_vars

NextFiles == RegisterFile \/ ResizeFile \/ Read10

SpecFiles == InitFiles /\ [][NextFiles]_vars

(***************************************************************************)
(* The host's commands, reads among them, while the contents change.       *)
(***************************************************************************)
HostReadScripts ==
    {<< ReadRequest(0, << 0, 64 >>, 0) >>,
     << ReadRequest(11, << 0, 64 >>, 0), ReadRequest(LastRegionBound, << 0, 64 >>, 0) >>}

InitHost ==
    /\ Init!1
    /\ Init!2
    /\ host_reads \in HostReadScripts

GrowFile ==
    /\ VdAddFile(1, 0, cluster_size_bytes) \/ VdUpdateFile(1, cluster_size_bytes)
    /\ UNCHANGED stdout_vars

NextHost == NotifyChanged \/ ScsiCommand \/ Read10 \/ GrowFile

SpecHost == InitHost /\ [][NextHost]_vars

(***************************************************************************)
(* The log stream: the application writes from either context while the    *)
(* main context reads the ring.                                            *)
(***************************************************************************)
\* A release build and a build with assert().
LogDevices == {d \in Devices : d.board_id = << 0, 0, 0, 0 >> /\ d.garbage = 0}

InitLog ==
    /\ InitFirmware
    /\ device \in LogDevices
    /\ host_reads = << >>

\* Lengths of a write: short, long enough to notify, wrapping around, and
\* longer than the buffer.
RingWriteLens ==
    {5, 136, ring_buffer_capacity - 96, ring_buffer_capacity + 4}

\* Reads << offset, len >>: at the start of the stream, across the place
\* where the buffer wraps, across the end of one long write, and far out.
GetRequests ==
    {<< 0, 64 >>, << ring_buffer_capacity - 6, 12 >>,
     << ring_buffer_capacity - 96, 200 >>, << 2 * ring_buffer_capacity - 2, 20 >>}

RingWrite == \E who \in WriterContexts, len \in RingWriteLens : OutCharsEnter(who, len)

RingRead == \E req \in GetRequests : GetDataCall(req[1], req[2])

NextRing ==
    \/ StdoutInitAddFile
    \/ RingWrite
    \/ WriteCount
    \/ WriteCopy
    \/ WriteNotify
    \/ OutCharsExit
    \/ RingRead
    \/ GetDataEnter
    \/ GetDataReturn

SpecRing == InitLog /\ [][NextRing]_vars

(***************************************************************************)
(* The notifier: the application writes, time passes, the alarm fires and  *)
(* the host reads the tail file.                                           *)
(***************************************************************************)
StdoutWriteLens == {1, 136}

\* Time passes until the pending alarm is due, or, with no alarm pending,
\* for the notification delay.
TickSizes ==
    {IF clock.due # NoAlarm THEN clock.due - clock.ms
     ELSE PICOVD_STDOUT_TAIL_UA_DELAY_SEC * 1000}

StdoutWrite ==
    \E who \in WriterContexts, len \in StdoutWriteLens : OutCharsEnter(who, len)

TimePasses == \E ms \in TickSizes : Tick(ms)

NextStdout ==
    \/ StdoutInitAddFile
    \/ StdoutWrite
    \/ WriteCount
    \/ WriteCopy
    \/ WriteNotify
    \/ OutCharsExit
    \/ NotifyTail("wr")
    \/ NotifyFull("wr")
    \/ TimerFires
    \/ NotifyTail("tm")
    \/ NotifyFull("tm")
    \/ TimerReturns
    \/ TimePasses
    \/ HostReadsTail

SpecStdout == InitLog /\ [][NextStdout]_vars

\* The processors run their code: a write that has begun, a notification
\* that has begun and the timer callback run to their end; time passes, and
\* an alarm that is due fires.  Nothing makes the application print or the
\* host read.
StdoutFairness ==
    /\ WF_vars(WriteCount)
    /\ WF_vars(WriteCopy)
    /\ WF_vars(WriteNotify)
    /\ WF_vars(OutCharsExit)
    /\ WF_vars(NotifyTail("wr"))
    /\ WF_vars(NotifyFull("wr"))
    /\ WF_vars(TimerFires)
    /\ WF_vars(NotifyTail("tm"))
    /\ WF_vars(NotifyFull("tm"))
    /\ WF_vars(TimerReturns)
    /\ WF_vars(TimePasses)

SpecStdoutFair == SpecStdout /\ StdoutFairness

(***************************************************************************)
(* Properties of the file API and of the media-change notification.        *)
(***************************************************************************)
Registered(f) == files[f].first_cluster # 0

\* The registry entry made for file f.
MapEntryOf(f) == CHOOSE i \in 1 .. Len(cluster_map) : cluster_map[i].handler = f

\* The size a reservation of max_size_bytes covers: whole clusters.
ReservedBytes(max_size_bytes) ==
    clusters_needed(max_size_bytes) * cluster_size_bytes

\* C3: once a file is registered with max_size_bytes, every vd_update_file
\* to a size within the reservation (max rounded up to whole clusters)
\* returns 0 and sets size_bytes, whatever else was registered or updated.
C3_UpdateWithinReservationSucceeds ==
    (call.op = "update" /\ call.a <= ReservedBytes(hist[call.f].reg_max))
        => (call.rc = 0 /\ files[call.f].size_bytes = call.a)

\* C5: a successful vd_add_file of an unbacked file assigns the old
\* next_cluster as first_cluster and advances next_cluster by exactly
\* ceil(max_size_bytes / cluster size), whatever the initial size_bytes.
C5_AddReservesForMaxSize ==
    [][(call'.op = "add" /\ call'.rc = 0 /\ ~Registered(call'.f))
          => /\ files'[call'.f].first_cluster = next_cluster
             /\ next_cluster' = next_cluster + clusters_needed(call'.b)]_vars

\* C6: vd_add_file of an unbacked file returns a negative value exactly
\* when next_cluster + n > PICOVD_DYNAMIC_AREA_END_CLUSTER or the registry
\* is full (a request that fills the area exactly succeeds), and a failed
\* add changes neither next_cluster nor the registry.
C6_AddFailsExactlyWhenOutOfSpace ==
    [][(call'.op = "add" /\ ~Registered(call'.f))
          => /\ (call'.rc < 0) <=>
                    \/ next_cluster + clusters_needed(call'.b)
                          > PICOVD_DYNAMIC_AREA_END_CLUSTER
                    \/ Len(cluster_map) >= PICOVD_PARAM_MAX_DYNAMIC_FILES
             /\ (call'.rc < 0) => UNCHANGED << next_cluster, cluster_map, files >>]_vars

\* C7: a vd_update_file to a size beyond the file's reserved run succeeds
\* only if the run ends exactly at next_cluster and next_cluster plus the
\* extra clusters stays within PICOVD_DYNAMIC_AREA_END_CLUSTER, and then
\* extends the run in place; otherwise it returns a negative value and
\* leaves size_bytes, next_cluster and the contents-changed flag unchanged.
C7_ExtendOnlyAtTail ==
    [][(call'.op = "update" /\ clusters_needed(call'.a) > hist[call'.f].reserved)
          => LET f     == call'.f
                 extra == clusters_needed(call'.a) - hist[f].reserved
                 tail  == /\ files[f].first_cluster + hist[f].reserved = next_cluster
                          /\ next_cluster + extra <= PICOVD_DYNAMIC_AREA_END_CLUSTER
             IN /\ (call'.rc = 0)
                     => /\ tail
                        /\ next_cluster' = next_cluster + extra
                        /\ files'[f] = [files[f] EXCEPT !.size_bytes = call'.a]
                /\ (call'.rc # 0)
                     => /\ call'.rc < 0
                        /\ UNCHANGED << files, next_cluster, changed_flag >>
                /\ ~tail => call'.rc < 0]_vars

\* C7 witness: an update has just extended a run past what was registered.
C7_Witness ==
    /\ call.op = "update" /\ call.rc = 0
    /\ hist[call.f].reserved
          > clusters_needed(cluster_map[MapEntryOf(call.f)].file_size_bytes)
    /\ files[call.f].first_cluster + hist[call.f].reserved = next_cluster

\* C8: for every registered file, first_cluster is the value assigned at
\* registration, the run in the registry has not moved, and size_bytes is at
\* most reserved_cluster_count * cluster size.
C8_RunFixedAndSizeWithinRun ==
    \A f \in FileIds :
        Registered(f)
          => /\ files[f].first_cluster = hist[f].reg_first
             /\ cluster_map[MapEntryOf(f)].first_cluster = hist[f].reg_first
             /\ files[f].size_bytes <= hist[f].reserved * cluster_size_bytes

\* C8 witness: two files registered, one of them grown past its
\* registration size and later updated to a smaller non-zero size.
C8_Witness ==
    /\ \A f \in FileIds : Registered(f)
    /\ \E f \in FileIds :
          /\ hist[f].reserved
                > clusters_needed(cluster_map[MapEntryOf(f)].file_size_bytes)
          /\ files[f].size_bytes > 0
          /\ clusters_needed(files[f].size_bytes) < hist[f].reserved

NotificationConsumedOnlyBy(cmds) ==
    /\ (call'.op = "changed") => changed_flag'
    /\ (call'.op \in cmds /\ changed_flag)
          => /\ call'.rc = TUD_MSC_RET_ERROR
             /\ sense' = UnitAttentionSense
             /\ ~changed_flag'
    /\ (call'.op \in cmds /\ ~changed_flag)
          => (call'.rc = 0 /\ ~changed_flag' /\ sense' = sense)
    /\ (call'.op \in (ScsiCommands \cup {"READ10"}) \ cmds)
          => (changed_flag' = changed_flag)

C1_EveryByteWritten ==
    (call.op = "READ10")
       => /\ ~halted
          /\ call.rc = call.b
          /\ \A i \in 0 .. call.b - 1 : dst[i] # Stale
          /\ (call.f >= LastRegionBound) => \A i \in 0 .. call.b - 1 : dst[i] = 0

\* The full 512-byte read at offset 0 of a sector in the current state, at
\* an uptime the host may read at.
FullRead(lba, uptime) ==
    tud_msc_read10_cb(lba, 0, NewBuffer(MSC_BLOCK_SIZE), MSC_BLOCK_SIZE, statics,
                      [board_id |-> device.board_id, asserts |-> device.asserts,
                       garbage |-> device.garbage, uptime |-> uptime]).buf

\* C2: with no state change in between, the bytes a slice read returns are
\* the bytes of the same range of the full 512-byte read of the sector at
\* offset 0.
C2_SliceOfFullRead ==
    (call.op = "READ10" /\ ~halted)
       => \E uptime \in UptimeSeconds :
             \A i \in 0 .. call.b - 1 :
                dst[i] = FullRead(call.f, uptime)[call.a + i]

\* The cluster of a sector of the cluster heap, and the offset of a byte of
\* the sector in its cluster.
ClusterOfLba(lba) ==
    ((lba - EXFAT_CLUSTER_HEAP_START_LBA) \div EXFAT_SECTORS_PER_CLUSTER)
      + EXFAT_CLUSTER_HEAP_START_CLUSTER

ByteInCluster(lba, offset) ==
    ((lba - EXFAT_CLUSTER_HEAP_START_LBA) % EXFAT_SECTORS_PER_CLUSTER)
        * EXFAT_BYTES_PER_SECTOR + offset

\* The cluster lies in the run file f holds.
InRunOf(f, cluster) ==
    /\ Registered(f)
    /\ cluster >= files[f].first_cluster
    /\ cluster < files[f].first_cluster + hist[f].reserved

\* C4: a read of a sector inside a registered file's cluster run is decided
\* against the file's current size_bytes: at file_offset >= size_bytes the
\* output is all zero and no callback is made; otherwise the content
\* callback is called with (file_offset, dst, min(len, size_bytes -
\* file_offset)) and the rest of dst is zero.
C4_DecidesAgainstCurrentSize ==
    (call.op = "READ10" /\ ~halted)
       => \A f \in FileIds :
             InRunOf(f, ClusterOfLba(call.f))
               => LET file_offset ==
                          (ClusterOfLba(call.f) - files[f].first_cluster)
                              * cluster_size_bytes + ByteInCluster(call.f, call.a)
                      size == files[f].size_bytes
                      to_copy == Min(call.b, size - file_offset)
                  IN IF file_offset >= size
                     THEN /\ content_cb = NoCallback
                          /\ \A i \in 0 .. call.b - 1 : dst[i] = 0
                     ELSE /\ content_cb = [f |-> f, offset |-> file_offset,
                                           len |-> to_copy]
                          /\ \A i \in to_copy .. call.b - 1 : dst[i] = 0

(***************************************************************************)
(* Properties of the rejected write commands.                              *)
(***************************************************************************)
\* The commands that would alter the medium.
WriteCommands == WriteLikeCommands \cup {"WRITE10"}

\* Sectors whose content depends on the state: the boot sector, the boot
\* checksum, the root directory, a dynamic slot, the dynamic area.
ProbeLbas ==
    {0, 11, EXFAT_ROOT_DIR_START_LBA, ChangingFileSlotLba,
     PICOVD_DYNAMIC_AREA_START_LBA}

\* The host reads the boot checksum and a dynamic slot, which fills the
\* caches, and sends write commands before, between and after the reads,
\* while a file is registered and grown and the contents change.
WriteReadScripts ==
    {<< ReadRequest(11, << 0, 64 >>, 0), ReadRequest(ChangingFileSlotLba, << 0, 64 >>, 0) >>}

InitWrites ==
    /\ Init!1
    /\ Init!2
    /\ host_reads \in WriteReadScripts

RejectedWrite == \E cmd \in WriteCommands : HostCommand(cmd)

SoftChange == ContentsChanged(FALSE)

NextWrites == RejectedWrite \/ Read10 \/ GrowFile \/ SoftChange

SpecWrites == InitWrites /\ [][NextWrites]_vars

\* A READ10 of one endpoint-sized slice of a sector, from the current state:
\* in the boot sector the slice holds the serial number, in the root
\* directory an entry with a checksum, in the dynamic area file content.
ProbeLen == 64

ProbeReadWith(lba, m, dev) ==
    tud_msc_read10_cb(lba, ProbeLen, NewBuffer(ProbeLen), ProbeLen, m,
                      [board_id |-> dev.board_id, asserts |-> dev.asserts,
                       garbage |-> dev.garbage, uptime |-> 0]).buf

ProbeRead(lba) == ProbeReadWith(lba, statics, device)

\* C11: WRITE (10/12/16), MODE SELECT (6/10), UNMAP and FORMAT UNIT each fail
\* with sense 07/27/00 and leave the volume state as it was: the
\* contents-changed flag, the allocator, the registry and the file sizes and
\* the lazy caches, so that every sector reads the same before and after:
\* with the caches and the device of the state after the command, and, in
\* the dynamic area, with the registry of the state after the command.
C11_WritesRejectedVolumeUnchanged ==
    [][(call'.op \in WriteCommands)
          => /\ call'.rc = TUD_MSC_RET_ERROR
             /\ sense' = [key |-> 7, asc |-> 39, ascq |-> 0]
             /\ UNCHANGED << changed_flag, next_cluster, cluster_map, files,
                             dir_files, statics, halted, usb_reconnects >>
             /\ \A lba \in ProbeLbas :
                   ProbeReadWith(lba, statics', device') = ProbeRead(lba)
             /\ ProbeRead(PICOVD_DYNAMIC_AREA_START_LBA)'
                   = ProbeRead(PICOVD_DYNAMIC_AREA_START_LBA)]_vars

\* A write command was rejected while a notification was pending, a file was
\* registered and a cache was filled.
C11_Witness ==
    /\ call.op \in WriteCommands
    /\ sense = WriteProtectedSense
    /\ changed_flag
    /\ Registered(1)
    /\ statics.checksum # NotCached

(***************************************************************************)
(* Properties of the boot checksum sector.                                 *)
(***************************************************************************)
\* The ROR32-and-add sum over the full reads of sectors lba .. 10 in the
\* current state, bytes 106, 107 and 112 of sector 0 left out.
RECURSIVE ChecksumOfReads(_, _)
ChecksumOfReads(lba, sum) ==
    IF lba > 10 THEN sum
    ELSE LET continue(next) ==
                 IF next.hi < 65536 THEN ChecksumOfReads(lba + 1, next) ELSE next
         IN continue(Sum32Fold(FullRead(lba, 0),
                               IF lba = 0 THEN {106, 107, 112} ELSE {},
                               0, MSC_BLOCK_SIZE, sum))

\* C18: in every slice read of sector 11 and of the backup checksum sector
\* 23, the byte at absolute position p of the sector is byte p mod 4 of the
\* little-endian 32-bit ROR32-and-add checksum over sectors 0..10 as the
\* dispatcher returns them, bytes 106, 107 and 112 of sector 0 skipped.
C18_ChecksumSectorLanes ==
    (call.op = "READ10" /\ call.f \in {11, 23})
       => /\ ~halted
          /\ LET lanes(checksum) ==
                     \A i \in 0 .. call.b - 1 :
                        dst[i] = byte_of32(checksum, (call.a + i) % 4)
             IN lanes(ChecksumOfReads(0, Sum32Zero))

\* A slice of the checksum sector that starts off a lane boundary was read,
\* on a board whose serial number is not zero.
C18_Witness ==
    /\ call.op = "READ10"
    /\ call.f \in {11, 23}
    /\ call.a % 4 # 0
    /\ statics.serial # NotInited
    /\ statics.checksum # NotCached
    /\ device.board_id # << 0, 0, 0, 0 >>

(***************************************************************************)
(* Properties of the directory entry sets.                                 *)
(***************************************************************************)
\* Where the file entry sets of a root directory sector start: at its
\* file-directory entries.
EntrySetStarts(sector) ==
    {p \in {32 * e : e \in 0 .. (MSC_BLOCK_SIZE \div 32) - 1} :
        sector[p] = exfat_entry_type_file_directory}

\* The 16-bit rotate-right-and-add sum over the (1 + secondary_count) * 32
\* bytes of the entry set at p of a sector, bytes 2 and 3 left out.
SetChecksumAt(sector, p) ==
    setchecksum_from([k \in 1 .. (1 + sector[p + 1]) * 32 |-> sector[p + k - 1]],
                     0, (1 + sector[p + 1]) * 32, 0)

\* C19: in every slice read of a root directory sector, byte 2 and byte 3 of
\* every file entry set the sector holds (the files of the fixed sector, the
\* entry set of a dynamic slot), where the slice holds them, are the low and
\* the high byte of the 16-bit rotate-right-and-add sum over all
\* (1 + secondary_count) * 32 bytes of the set except bytes 2 and 3.
C19_SetChecksumStored ==
    (call.op = "READ10" /\ call.f \in RootDirLbas /\ ~halted)
       => LET stored(sector) ==
                 \A p \in EntrySetStarts(sector) :
                    LET at(checksum) ==
                           /\ (call.a <= p + 2 /\ p + 2 < call.a + call.b)
                                 => dst[p + 2 - call.a] = checksum % 256
                           /\ (call.a <= p + 3 /\ p + 3 < call.a + call.b)
                                 => dst[p + 3 - call.a] = checksum \div 256
                    IN at(SetChecksumAt(sector, p))
          IN stored(FullRead(call.f, 0))

\* A slice that holds only the high checksum byte of a file of the fixed
\* sector was read.
C19_Witness ==
    /\ call.op = "READ10"
    /\ call.f = EXFAT_ROOT_DIR_START_LBA
    /\ call.a = 131
    /\ call.b = 1
    /\ ~halted
    /\ dst[0] # 0

\* The up-case mapping of the volume's up-case table: identity past the table.
UpCase(c) == IF c < Len(exfat_upcase_table) THEN exfat_upcase_table[c + 1] ELSE c

\* The name an entry set at p of a sector carries: name_length code units
\* out of its file name entries, fifteen to an entry.
EntrySetName(sector, p) ==
    [j \in 1 .. sector[p + 35] |->
        LET at == p + 64 + ((j - 1) \div 15) * 32 + 2 + ((j - 1) % 15) * 2
        IN sector[at] + 256 * sector[at + 1]]

\* NameHash over the up-cased name: low byte, then high byte of each unit.
NameHashUpCased(name) ==
    name_hash_from([j \in 1 .. Len(name) |-> UpCase(name[j])], 0, Len(name), 0)

\* C20: in every file entry set a root directory sector holds, the
\* name_hash of the stream extension (bytes 36 and 37 of the set) is the
\* 16-bit NameHash over the up-cased UTF-16 name of the set.
C20_NameHashOfUpCasedName ==
    (call.op = "READ10" /\ call.f \in RootDirLbas /\ ~halted
       /\ call.a = 0 /\ call.b = MSC_BLOCK_SIZE)
       => \A p \in EntrySetStarts(dst) :
             dst[p + 36] + 256 * dst[p + 37] = NameHashUpCased(EntrySetName(dst, p))

(***************************************************************************)
(* Properties of the log stream.                                           *)
(***************************************************************************)
Max(a, b) == IF a > b THEN a ELSE b

\* The first position of the window of a stream of total bytes.
WindowStart(total) == Max(0, total - ring_buffer_capacity)

\* C12: after any sequence of writes, also one longer than the capacity, a
\* read of len bytes at offset puts, for every stream position v of
\* [offset, offset + len) inside the window [max(0, total - K), total), the
\* byte written at v into dst[v - offset], and leaves every other byte of
\* dst as it was.
C12_ReadReturnsTheStream ==
    \A i \in DOMAIN trace.got.buf :
       trace.got.buf[i] =
          IF trace.got.offset + i >= WindowStart(trace.got.tot)
             /\ trace.got.offset + i < trace.got.tot
          THEN StreamByte(trace.got.offset + i)
          ELSE Stale

\* C13: after B bytes in total have been written, a read of
\* [offset, offset + len) returns
\* max(0, min(B, offset + len) - max(offset, max(0, B - K))).
C13_ReadReturnsWindowCount ==
    (trace.got.buf # << >>)
       => trace.got.rc =
             Max(0, Min(trace.got.tot, trace.got.offset + trace.got.len)
                      - Max(trace.got.offset, WindowStart(trace.got.tot)))

\* A read that starts before the window and ends inside it has returned,
\* after more bytes were written than the buffer holds.
C13_Witness ==
    /\ trace.got.tot > ring_buffer_capacity
    /\ trace.got.offset < WindowStart(trace.got.tot)
    /\ trace.got.rc > 0
    /\ trace.got.rc < trace.got.len

\* C14: a write and a read from different contexts never overlap: the
\* reader is inside stdio_ring_buffer_get_data's critical section only while
\* no write is in progress, and no read has seen the total updated with the
\* bytes not yet copied.
C14_WriteAndReadExclude ==
    /\ ~(ctx.rd.pc = "locked" /\ ctx.wr.pc # "idle")
    /\ ~trace.got.torn

\* The main context waits to read while the other core is inside a write:
\* the total is updated, the bytes are not yet copied.
C14_Witness ==
    /\ ctx.rd.pc = "waiting"
    /\ ctx.wr.pc = "counted"
    /\ ctx.wr.who = "core1"
    /\ mutex = "core1"

(***************************************************************************)
(* Properties of the notifier.                                             *)
(***************************************************************************)
\* C15: the registry (through vd_update_file) and the notifier's
\* bookkeeping are accessed from the main context only, never from the
\* context of a writer on the other core or of the timer callback.
C15_OnlyMainContextAccesses == trace.touched \subseteq {"main"}

\* C16: a notification is raised only when the unread count exceeds the
\* threshold and either (a) the host has not read the tail file within the
\* past DELAY_SEC seconds, or (b) TIMEOUT_SEC seconds have passed since the
\* alarm was armed and unread bytes are pending.
C16_NotifiesOnlyWhenDue ==
    (trace.notified.at # -1)
       => /\ trace.notified.unread > PICOVD_STDOUT_TAIL_UA_MINIMUM_AMOUNT
          /\ \/ trace.notified.tail_read_at = -1
             \/ trace.notified.at - trace.notified.tail_read_at
                   >= PICOVD_STDOUT_TAIL_UA_DELAY_SEC * 1000
             \/ /\ trace.notified.by = "timer"
                /\ trace.notified.at - trace.notified.armed_at
                      >= PICOVD_STDOUT_TAIL_UA_TIMEOUT_SEC * 1000
                /\ trace.notified.unread > 0

\* C17: when notify_files_changed has run with the stream total T, the full
\* log file's size_bytes is T and the tail file's size_bytes is the window
\* size, the unread count rounded down to a multiple of the endpoint
\* buffer size.
C17_SizesAfterNotify ==
    trace.notified.done
       => /\ files[stdout_dynamic_file].size_bytes = trace.notified.total
          /\ files[stdout_dynamic_tail_file].size_bytes = notifier.window_size
          /\ notifier.window_size
                = (trace.notified.unread \div CFG_TUD_MSC_EP_BUFSIZE)
                    * CFG_TUD_MSC_EP_BUFSIZE

(***************************************************************************)
(* Properties of the dynamic root-directory sectors.                       *)
(***************************************************************************)
\* The sectors of the dynamic slots.
DynamicSlotLbas ==
    EXFAT_ROOT_DIR_START_LBA + 1 .. EXFAT_ROOT_DIR_START_LBA + BuilderSlots

\* What the read of a request returns when the slot's entry set is built for
\* it, whatever the scratch buffer holds.
RebuiltRead(req) ==
    tud_msc_read10_cb(req.lba, req.offset, NewBuffer(req.len), req.len,
                      [statics EXCEPT !.slot = -1], ReadEnv(req)).buf

\* C21: every read of a dynamic root-directory sector returns the slot's
\* entry set as built from the state at the time of the read (size, first
\* cluster, timestamps), also when the same slot was read just before and
\* the state has changed since.
C21_DynamicSectorBuiltPerRead ==
    [][(/\ host_reads # << >>
        /\ Head(host_reads).lba \in DynamicSlotLbas
        /\ call'.op = "READ10"
        /\ ~halted')
          => dst' = RebuiltRead(Head(host_reads))]_vars

(***************************************************************************)
(* Properties of the lazy caches.                                          *)
(***************************************************************************)
\* C22: the cached volume serial number, the cached boot checksum and the
\* cached SetChecksum of each entry set of the fixed sector are write-once:
\* once computed, no step clears or changes them; and a cached SetChecksum
\* is the checksum of its entry set, whatever slice made the generator
\* compute it.
C22_CachesWriteOnce ==
    [][/\ (statics.serial # NotInited) => (statics'.serial = statics.serial)
       /\ (statics.checksum # NotCached) => (statics'.checksum = statics.checksum)
       /\ \A i \in DOMAIN statics.set_checksums :
             /\ (statics.set_checksums[i] # NotComputed)
                   => (statics'.set_checksums[i] = statics.set_checksums[i])
             /\ statics'.set_checksums[i]
                   \in {NotComputed,
                        exfat_dirs_compute_setchecksum(
                            exfat_root_dir_entries[i],
                            Len(exfat_root_dir_entries[i]))}]_vars

\* A read of the checksum sector has computed the checksum and, with it, the
\* serial number; the read of the fixed root-directory sector that followed
\* has computed set checksums and left the older caches as they were.
C22_Witness ==
    /\ call.op = "READ10"
    /\ call.f = EXFAT_ROOT_DIR_START_LBA
    /\ call.a = 64
    /\ host_reads = << >>
    /\ ~halted
    /\ statics.checksum # NotCached
    /\ statics.serial # NotInited
    /\ statics.set_checksums[1] # NotComputed

(***************************************************************************)
(* Properties of the first FAT sector.                                     *)
(***************************************************************************)
\* FAT entry i of a sector as read: the four bytes of a little-endian
\* 32-bit word.
FatEntry(sector, i) ==
    << sector[4 * i], sector[4 * i + 1], sector[4 * i + 2], sector[4 * i + 3] >>

FatEntriesPerSector == EXFAT_BYTES_PER_SECTOR \div 4

\* The cluster an entry points at; -1 for one beyond 65535, which no entry
\* of the first sector can be.
FatNext(entry) ==
    IF entry[3] = 0 /\ entry[4] = 0 THEN entry[1] + 256 * entry[2] ELSE -1

\* The clusters visited by following the FAT entries from cluster c until
\* the end-of-chain mark; -1 where the chain leaves the sector or does not
\* end within fuel steps.
RECURSIVE FatWalk(_, _, _)
FatWalk(sector, c, fuel) ==
    IF fuel = 0 \/ c < 0 \/ c >= FatEntriesPerSector THEN << -1 >>
    ELSE IF FatEntry(sector, c) = FatEndOfChain THEN << c >>
    ELSE << c >> \o FatWalk(sector, FatNext(FatEntry(sector, c)), fuel - 1)

\* The clusters first, first + 1, ... of a structure of count clusters.
ClusterRun(first, count) == [k \in 1 .. count |-> first + k - 1]

\* First cluster and length of the allocation bitmap, the up-case table and
\* the root directory under the configured geometry.
FatStructures ==
    {<< EXFAT_ALLOCATION_BITMAP_START_CLUSTER, EXFAT_ALLOCATION_BITMAP_LENGTH_CLUSTERS >>,
     << EXFAT_UPCASE_TABLE_START_CLUSTER, EXFAT_UPCASE_TABLE_LENGTH_CLUSTERS >>,
     << EXFAT_ROOT_DIR_START_CLUSTER, EXFAT_ROOT_DIR_LENGTH_CLUSTERS >>}

\* C23: in the first FAT sector as read, FAT[0] = 0xFFFFFFF8 and
\* FAT[1] = 0xFFFFFFFF; following the entries from the first cluster of the
\* allocation bitmap, of the up-case table and of the root directory visits
\* exactly the clusters the structure occupies and ends with 0xFFFFFFFF; all
\* other entries are zero.
C23_FatChainsMatchGeometry ==
    (/\ call.op = "READ10"
     /\ call.f = EXFAT_FAT_REGION_START_LBA
     /\ call.a = 0
     /\ call.b = MSC_BLOCK_SIZE
     /\ ~halted)
       => /\ FatEntry(dst, 0) = << 248, 255, 255, 255 >>
          /\ FatEntry(dst, 1) = FatEndOfChain
          /\ \A s \in FatStructures :
                FatWalk(dst, s[1], FatEntriesPerSector) = ClusterRun(s[1], s[2])
          /\ \A i \in 2 .. FatEntriesPerSector - 1 :
                (\A s \in FatStructures : i < s[1] \/ i >= s[1] + s[2])
                   => FatEntry(dst, i) = << 0, 0, 0, 0 >>

(***************************************************************************)
(* Properties of the up-case table.                                        *)
(***************************************************************************)
\* Where the fixed root-directory sector holds the up-case table's entry.
UpcaseEntryOffset == 64

\* ROR32-and-add over sectors k, k + 1, ... below sectors of the up-case
\* table as READ10 returns them, starting from the table's first sector.
RECURSIVE UpcaseSumOfReads(_, _, _)
UpcaseSumOfReads(k, sectors, sum) ==
    IF k >= sectors THEN sum
    ELSE LET continue(next) ==
                 IF next.hi < 65536 THEN UpcaseSumOfReads(k + 1, sectors, next)
                 ELSE next
         IN continue(Sum32Fold(FullRead(EXFAT_UPCASE_TABLE_START_LBA + k, 0),
                               {}, 0, MSC_BLOCK_SIZE, sum))

\* data_length of the up-case table's entry in a fixed sector as read (its
\* upper bytes are zero for any table that fits the volume).
UpcaseDataLength(sector) ==
    sector[UpcaseEntryOffset + 24] + 256 * sector[UpcaseEntryOffset + 25]
      + 65536 * sector[UpcaseEntryOffset + 26]

\* C24: the TableChecksum in the up-case table's directory entry, as the
\* fixed root-directory sector returns it, is the ROR32-and-add checksum
\* over the data_length bytes of the table as READ10 returns them from the
\* table's first cluster on.
C24_TableChecksumOfEmittedTable ==
    (/\ call.op = "READ10"
     /\ call.f = EXFAT_ROOT_DIR_START_LBA
     /\ call.a = 0
     /\ call.b = MSC_BLOCK_SIZE
     /\ ~halted)
       => /\ dst[UpcaseEntryOffset] = exfat_entry_type_upcase_table
          /\ UpcaseDataLength(dst) % MSC_BLOCK_SIZE = 0
          /\ << dst[UpcaseEntryOffset + 4], dst[UpcaseEntryOffset + 5],
                dst[UpcaseEntryOffset + 6], dst[UpcaseEntryOffset + 7] >>
               = Sum32_LE(UpcaseSumOfReads(0, UpcaseDataLength(dst) \div MSC_BLOCK_SIZE,
                                           Sum32Zero))

(***************************************************************************)
(* Properties of the boot checksum computed from build-time constants.     *)
(***************************************************************************)
\* The checksum by the walk over sectors 0 .. 10 as the generators emit them
\* for the device's serial number, bytes 106, 107 and 112 of sector 0
\* skipped.
ReferenceVbrChecksum ==
    vbr_checksum_from(0, [serial |-> device.board_id],
                      [board_id |-> device.board_id], Sum32Zero)

\* C25: for every volume serial number, the checksum computed from the
\* prefix constant, the four serial bytes, the rotation by 24 and the suffix
\* constant equals the checksum of the byte-by-byte walk over sectors
\* 0 .. 10; this holds of the value computed and of the value the caller
\* receives.
C25_OptimisedEqualsReference ==
    (call.op = "VBR_OPTIMISED")
       => /\ compute_vbr_checksum_runtime_optimised(
                 statics, [board_id |-> device.board_id]).sum
               = ReferenceVbrChecksum
          /\ dst = [i \in 0 .. 3 |-> byte_of32(ReferenceVbrChecksum, i)]

(***************************************************************************)
(* Properties of the ring's cursor.                                        *)
(***************************************************************************)
\* C26: before and after every ring write, of any length, the predicate of
\* ring_buffer_assert holds: beg <= ptr < end and total mod K = ptr - beg.
\* (Inside a write, between the update of the total and the copy, it need
\* not hold.)
C26_RingBufferAssertHolds ==
    (ctx.wr.pc # "counted") => ring_buffer_assert(rb)

(***************************************************************************)
(* Liveness of the notifier.                                               *)
(***************************************************************************)
\* A write has stored its bytes and leaves more than the threshold unread.
UnreadAfterWrite ==
    /\ ~halted
    /\ ctx.wr.pc = "copied"
    /\ rb.tot - notifier.total_read > PICOVD_STDOUT_TAIL_UA_MINIMUM_AMOUNT

\* C27: whenever a write leaves more than the threshold unread, a run of
\* notify_files_changed completes after the write has stored its bytes
\* (stdout_tail_ua_pending is incremented), at once or from the alarm, given
\* that a due alarm fires.
C27_NotificationFollows ==
    \A n \in 0 .. MaxWrites + 1 :
       (UnreadAfterWrite /\ trace.runs_at_copy = n) ~> (notifier.ua_pending > n)

(***************************************************************************)
(* Properties of the memory-mapped files.                                  *)
(***************************************************************************)
\* The regions of the memory-mapped files: first sector, size in bytes and
\* the device address of the first byte.
MemoryMappedRegions ==
    {[start_lba |-> PICOVD_BOOTROM_START_LBA, size_bytes |-> PICOVD_BOOTROM_SIZE_BYTES,
      base |-> 0],
     [start_lba |-> PICOVD_SRAM_START_LBA, size_bytes |-> PICOVD_SRAM_SIZE_BYTES,
      base |-> SRAM0_BASE],
     [start_lba |-> PICOVD_FLASH_START_LBA, size_bytes |-> PICOVD_FLASH_SIZE_BYTES,
      base |-> XIP_BASE]}

RegionHolds(region, lba) ==
    /\ lba >= region.start_lba
    /\ lba < region.start_lba + region.size_bytes \div EXFAT_BYTES_PER_SECTOR

\* C28: a read (lba, offset, len) inside the region of a memory-mapped file
\* returns the device bytes at
\* region_base + (lba - region_start_lba) * 512 + offset.
C28_MemoryMappedSlice ==
    \A region \in MemoryMappedRegions :
       (call.op = "READ10" /\ ~halted /\ RegionHolds(region, call.f))
          => \A i \in 0 .. call.b - 1 :
                dst[i] = DeviceByte(region.base
                                      + (call.f - region.start_lba) * EXFAT_BYTES_PER_SECTOR
                                      + call.a + i)

(***************************************************************************)
(* Properties of the allocator.                                            *)
(***************************************************************************)
\* A file holds the clusters given to it at registration and by extensions,
\* hist[f].reserved of them from its first_cluster on.  The allocator cursor is inside the dynamic area, the clusters a file's
\* size needs are in its run, and the runs of the registered files are
\* disjoint and lie below the cursor.
AllocatorInvariant ==
    /\ next_cluster >= PICOVD_DYNAMIC_AREA_START_CLUSTER
    /\ next_cluster <= PICOVD_DYNAMIC_AREA_END_CLUSTER
    /\ \A f \in FileIds :
          Registered(f)
            => /\ clusters_needed(files[f].size_bytes) <= hist[f].reserved
               /\ (hist[f].reserved > 0)
                     => /\ files[f].first_cluster >= PICOVD_DYNAMIC_AREA_START_CLUSTER
                        /\ files[f].first_cluster + hist[f].reserved <= next_cluster
    /\ \A f, g \in FileIds :
          (Registered(f) /\ Registered(g) /\ f # g)
             => \/ hist[f].reserved = 0
                \/ hist[g].reserved = 0
                \/ files[f].first_cluster + hist[f].reserved <= files[g].first_cluster
                \/ files[g].first_cluster + hist[g].reserved <= files[f].first_cluster

\* C29: after any sequence of successful or failed vd_add_file and
\* vd_update_file calls next_cluster is inside
\* [PICOVD_DYNAMIC_AREA_START_CLUSTER, PICOVD_DYNAMIC_AREA_END_CLUSTER], it
\* never decreases, and the cluster runs of two distinct registered files
\* are disjoint and lie inside [PICOVD_DYNAMIC_AREA_START_CLUSTER,
\* next_cluster).
C29_AllocatorKeepsRuns ==
    [][/\ AllocatorInvariant
       /\ AllocatorInvariant'
       /\ next_cluster' >= next_cluster]_vars

\* Both files hold clusters, one call has failed at the end of the area or
\* for a file that is not the last one, and the last file has been extended.
C29_Witness ==
    /\ \A f \in FileIds : Registered(f) /\ hist[f].reserved > 0
    /\ call.op = "update" /\ call.rc = -1
    /\ \E f \in FileIds :
          hist[f].reserved
             > clusters_needed(cluster_map[MapEntryOf(f)].file_size_bytes)

(***************************************************************************)
(* Invariants of the notifier.                                             *)
(***************************************************************************)
\* With total bytes written, the state n of the notifier is in order: the
\* read high-water mark is not beyond the total, the window size is a
\* multiple of the endpoint buffer size and the window ends within the
\* stream.
NotifierInOrder(n, total) ==
    /\ n.total_read >= 0
    /\ n.total_read <= total
    /\ n.window_size >= 0
    /\ n.window_size % CFG_TUD_MSC_EP_BUFSIZE = 0
    /\ n.window_start + n.window_size <= total

\* Calls (offset, bufsize) of the tail file's content callback: the pieces of
\* the first sectors, and a piece beyond a window of two pieces.
TailCallbackInputs ==
    {<< 0, CFG_TUD_MSC_EP_BUFSIZE >>,
     << CFG_TUD_MSC_EP_BUFSIZE, CFG_TUD_MSC_EP_BUFSIZE >>,
     << 0, MSC_BLOCK_SIZE >>,
     << 2 * CFG_TUD_MSC_EP_BUFSIZE - 1, 3 >>,
     << MSC_BLOCK_SIZE, CFG_TUD_MSC_EP_BUFSIZE >>}

=============================================================================
